---- MODULE Spec2Model ----
(***************************************************************************)
(* A model of the voxel world: the voxel ray-caster and the edit            *)
(* operations of voxel_handler.py, the progressive mesh scheduler of        *)
(* world.py and the culling orchestrator of frustum.py.                     *)
(*                                                                          *)
(* Numbers.  Positions of the player are kept in half cells (the integer p  *)
(* stands for p/2), the ray parameter t in units of 1/T_ONE, and the        *)
(* lengths of the culling geometry in tenths of a cell, so that every       *)
(* comparison the code makes on floats is made here on integers.            *)
(***************************************************************************)
EXTENDS Integers, Sequences, FiniteSets, TLC

(***************************************************************************)
(* settings.py (not part of the sources at hand): a small world.           *)
(***************************************************************************)
CHUNK_SIZE == 3
WORLD_W == 3
WORLD_H == 2
WORLD_D == 2
WORLD_AREA == WORLD_W * WORLD_D
WORLD_VOL == WORLD_AREA * WORLD_H
CHUNK_AREA == CHUNK_SIZE * CHUNK_SIZE
CHUNK_VOL == CHUNK_AREA * CHUNK_SIZE
DIRT == 3
MAX_RAY_DIST == 3

\* Python's None, for the integer-valued fields of the handler.
None == -1
\* Python's None, for the vector-valued fields of the handler.
NoneVec == <<>>

\* the number of edits (set_voxel calls) a behaviour of the model makes
MaxEdits == 2

Sign(v) == IF v > 0 THEN 1 ELSE IF v < 0 THEN -1 ELSE 0
Abs(v) == IF v < 0 THEN -v ELSE v
Min(a, b) == IF a < b THEN a ELSE b
\* the number of times c occurs in the list cs
Count(cs, c) == Cardinality({k \in 1 .. Len(cs) : cs[k] = c})

ChunkIds == 0 .. (WORLD_VOL - 1)
VoxelIds == 0 .. (CHUNK_VOL - 1)

(***************************************************************************)
(* World.build_chunks: the chunk at grid position (x, y, z) is stored      *)
(* under x + WORLD_W * z + WORLD_AREA * y.                                 *)
(***************************************************************************)
build_chunks_index(x, y, z) == x + WORLD_W * z + WORLD_AREA * y

\* the grid position of the chunk stored under index i (Chunk.position)
chunk_position(i) ==
    CHOOSE p \in (0 .. WORLD_W - 1) \X (0 .. WORLD_H - 1) \X (0 .. WORLD_D - 1) :
        build_chunks_index(p[1], p[2], p[3]) = i

(***************************************************************************)
(* terrain_gen (an opaque oracle): the height of the column (wx, wz) and   *)
(* the id of a solid voxel, for the worlds the model starts from.          *)
(***************************************************************************)
Terrains == {"step"}

get_height(terrain, wx, wz) ==
    IF wx < CHUNK_SIZE THEN 2
    ELSE IF wx < 2 * CHUNK_SIZE THEN 3
    ELSE 4

set_voxel_id(wy, world_height) == IF wy = world_height - 1 THEN 2 ELSE 4

\* Chunk.build_voxels / generate_terrain for the chunk stored under index i
build_voxels(terrain, i) ==
    LET p == chunk_position(i)
        cx == p[1] * CHUNK_SIZE
        cy == p[2] * CHUNK_SIZE
        cz == p[3] * CHUNK_SIZE
    IN [vi \in VoxelIds |->
          LET y == vi \div CHUNK_AREA
              z == (vi % CHUNK_AREA) \div CHUNK_SIZE
              x == vi % CHUNK_SIZE
              world_height == get_height(terrain, x + cx, z + cz)
              local_height == Min(world_height - cy, CHUNK_SIZE)
          IN IF y < local_height THEN set_voxel_id(y + cy, world_height) ELSE 0]

\* np.any(voxels)
AnyVoxel(vs) == \E vi \in VoxelIds : vs[vi] # 0

\* a variant of get_voxel_id that takes the chunk index with y and z exchanged
get_voxel_id_swapped(vox, voxel_world_pos) ==
    LET wx == voxel_world_pos[1]
        wy == voxel_world_pos[2]
        wz == voxel_world_pos[3]
        cx == wx \div CHUNK_SIZE
        cy == wy \div CHUNK_SIZE
        cz == wz \div CHUNK_SIZE
    IN IF 0 <= cx /\ cx < WORLD_W /\ 0 <= cy /\ cy < WORLD_H /\ 0 <= cz /\ cz < WORLD_D
       THEN LET chunk_index == cx + WORLD_W * cy + WORLD_AREA * cz
                lx == wx - cx * CHUNK_SIZE
                ly == wy - cy * CHUNK_SIZE
                lz == wz - cz * CHUNK_SIZE
                voxel_index == lx + CHUNK_SIZE * lz + CHUNK_AREA * ly
            IN <<vox[chunk_index][voxel_index], voxel_index, <<lx, ly, lz>>, chunk_index>>
       ELSE <<0, 0, <<0, 0, 0>>, None>>

(***************************************************************************)
(* VoxelHandler.get_voxel_id: <<voxel_id, voxel_index, local pos, chunk>>. *)
(***************************************************************************)
get_voxel_id(vox, voxel_world_pos) ==
    LET wx == voxel_world_pos[1]
        wy == voxel_world_pos[2]
        wz == voxel_world_pos[3]
        cx == wx \div CHUNK_SIZE
        cy == wy \div CHUNK_SIZE
        cz == wz \div CHUNK_SIZE
    IN IF 0 <= cx /\ cx < WORLD_W /\ 0 <= cy /\ cy < WORLD_H /\ 0 <= cz /\ cz < WORLD_D
       THEN LET chunk_index == cx + WORLD_W * cz + WORLD_AREA * cy
                lx == wx - cx * CHUNK_SIZE
                ly == wy - cy * CHUNK_SIZE
                lz == wz - cz * CHUNK_SIZE
                voxel_index == lx + CHUNK_SIZE * lz + CHUNK_AREA * ly
            IN <<vox[chunk_index][voxel_index], voxel_index, <<lx, ly, lz>>, chunk_index>>
       ELSE <<0, 0, <<0, 0, 0>>, None>>

\* meshes.chunk_mesh_builder.get_chunk_index: -1 outside the world
get_chunk_index(world_voxel_pos) ==
    LET cx == world_voxel_pos[1] \div CHUNK_SIZE
        cy == world_voxel_pos[2] \div CHUNK_SIZE
        cz == world_voxel_pos[3] \div CHUNK_SIZE
    IN IF 0 <= cx /\ cx < WORLD_W /\ 0 <= cy /\ cy < WORLD_H /\ 0 <= cz /\ cz < WORLD_D
       THEN cx + WORLD_W * cz + WORLD_AREA * cy
       ELSE -1

(***************************************************************************)
(* VoxelHandler.ray_cast.  The player's position is given in half cells,   *)
(* its forward vector as the numerators of forward * MAX_RAY_DIST, so the  *)
(* segment x2 - x1 is a vector of whole cells.                             *)
(***************************************************************************)
\* the float 1.0 of the ray parameter, in the model's units of t
T_ONE == 12
\* the increment 10000000.0 of an axis the ray does not move along
BIG_DELTA == 10000000 * T_ONE

\* glm.ivec3(x1, y1, z1): the conversion of a float to int truncates toward zero
ivec3(p) == [i \in 1 .. 3 |-> IF p[i] >= 0 THEN p[i] \div 2 ELSE -((-p[i]) \div 2)]
\* glm.fract(x) = x - floor(x), as a number of halves
fract(x) == x % 2
\* math.floor of a position, per axis (the cell a position lies in)
floor3(p) == [i \in 1 .. 3 |-> p[i] \div 2]

\* x2 - x1 for position + forward * MAX_RAY_DIST
segment(forward) == [i \in 1 .. 3 |-> forward[i]]

\* an increment that is 0 on an axis the ray does not move along
delta_t_still(d, len) == IF d # 0 THEN Min(T_ONE \div Abs(len), BIG_DELTA) ELSE 0

\* delta_x = min(dx / (x2 - x1), 10000000.0) if dx != 0 else 10000000.0
delta_t(d, len) == IF d # 0 THEN Min(T_ONE \div Abs(len), BIG_DELTA) ELSE BIG_DELTA
\* max_x = delta_x * (1.0 - fract(x1)) if dx > 0 else delta_x * fract(x1)
max_t(d, delta, x1) == IF d > 0 THEN (delta * (2 - fract(x1))) \div 2
                       ELSE (delta * fract(x1)) \div 2

\* a choice of the axis that prefers x, then z, then y among equal max_t
advance_axis_x_first(max_x, max_y, max_z) ==
    IF max_x <= max_y
    THEN (IF max_x <= max_z THEN 0 ELSE 2)
    ELSE (IF max_y < max_z THEN 1 ELSE 2)

\* the axis the loop advances: 0 = x, 1 = y, 2 = z (lines 148-165)
advance_axis(max_x, max_y, max_z) ==
    IF max_x < max_y
    THEN (IF max_x < max_z THEN 0 ELSE 2)
    ELSE (IF max_y < max_z THEN 1 ELSE 2)

\* a normal that points along the step instead of against it
hit_normal_along(step_dir, d) ==
    IF step_dir = 0 THEN <<d[1], 0, 0>>
    ELSE IF step_dir = 1 THEN <<0, d[2], 0>>
    ELSE <<0, 0, d[3]>>

\* the face normal written on a hit (lines 140-145)
hit_normal(step_dir, d) ==
    IF step_dir = 0 THEN <<-d[1], 0, 0>>
    ELSE IF step_dir = 1 THEN <<0, -d[2], 0>>
    ELSE <<0, 0, -d[3]>>

\* the while loop of ray_cast; trace collects, per iteration, the cell sampled,
\* the max_t values it was entered with and the axis advanced before it
RECURSIVE ray_loop(_, _, _, _, _, _, _)
ray_loop(vox, d, delta, cur, max, step_dir, trace) ==
    IF max[1] > T_ONE /\ max[2] > T_ONE /\ max[3] > T_ONE
    THEN [hit |-> FALSE, result |-> <<0, 0, <<0, 0, 0>>, None>>, pos |-> cur,
          normal |-> <<0, 0, 0>>, trace |-> trace]
    ELSE LET result == get_voxel_id(vox, cur)
             seen == Append(trace, [cell |-> cur, max |-> max, step_dir |-> step_dir])
         IN IF result[1] # 0
            THEN [hit |-> TRUE, result |-> result, pos |-> cur,
                  normal |-> hit_normal(step_dir, d), trace |-> seen]
            ELSE LET a == advance_axis(max[1], max[2], max[3])
                 IN ray_loop(vox, d, delta,
                             [i \in 1 .. 3 |-> IF i = a + 1 THEN cur[i] + d[i] ELSE cur[i]],
                             [i \in 1 .. 3 |-> IF i = a + 1 THEN max[i] + delta[i] ELSE max[i]],
                             a, seen)

ray_cast(vox, position, forward) ==
    LET seg == segment(forward)
        dir == [i \in 1 .. 3 |-> Sign(seg[i])]
        deltas == [i \in 1 .. 3 |-> delta_t(dir[i], seg[i])]
        maxs == [i \in 1 .. 3 |-> max_t(dir[i], deltas[i], position[i])]
    IN ray_loop(vox, dir, deltas, ivec3(position), maxs, -1, <<>>)

\* a ray_cast that leaves voxel_id alone on a miss
after_ray_cast_keep(h, rc) ==
    IF rc.hit
    THEN [h EXCEPT !.voxel_id = rc.result[1], !.voxel_index = rc.result[2],
                   !.voxel_local_pos = rc.result[3], !.chunk = rc.result[4],
                   !.voxel_world_pos = rc.pos, !.voxel_normal = rc.normal]
    ELSE [h EXCEPT !.voxel_normal = <<0, 0, 0>>]

\* the handler's fields after ray_cast (lines 117-118, 137-146, 166)
after_ray_cast(h, rc) ==
    IF rc.hit
    THEN [h EXCEPT !.voxel_id = rc.result[1], !.voxel_index = rc.result[2],
                   !.voxel_local_pos = rc.result[3], !.chunk = rc.result[4],
                   !.voxel_world_pos = rc.pos, !.voxel_normal = rc.normal]
    ELSE [h EXCEPT !.voxel_id = 0, !.voxel_normal = <<0, 0, 0>>]

\* VoxelHandler.__init__
handler_init ==
    [chunk |-> None, voxel_id |-> None, voxel_index |-> None,
     voxel_local_pos |-> NoneVec, voxel_world_pos |-> NoneVec,
     voxel_normal |-> NoneVec, interaction_mode |-> 0, new_voxel_id |-> DIRT]

\* Python's truth value of self.voxel_id (None and 0 are false)
truthy(v) == v # None /\ v # 0

(***************************************************************************)
(* frustum.py.  Lengths are in tenths of a cell.  The cameras of the model *)
(* look along a coordinate axis, so every dot product is an integer.       *)
(***************************************************************************)
\* settings.py (not part of the sources at hand)
NEAR == 1
FAR == 75
CHUNK_SPHERE_RADIUS == 26

Dot(a, b) == a[1] * b[1] + a[2] * b[2] + a[3] * b[3]
Sub(a, b) == [i \in 1 .. 3 |-> a[i] - b[i]]
Max(a, b) == IF a > b THEN a ELSE b

\* math.sqrt, rounded down to the model's unit
RECURSIVE sqrt_between(_, _, _)
sqrt_between(n, lo, hi) ==
    IF hi - lo <= 1 THEN lo
    ELSE LET mid == (lo + hi) \div 2
         IN IF mid * mid <= n THEN sqrt_between(n, mid, hi) ELSE sqrt_between(n, lo, mid)
sqrt(n) == sqrt_between(n, 0, 46340)

\* glm.normalize, for a vector along one coordinate axis
normalize(v) == [i \in 1 .. 3 |-> Sign(v[i])]

\* Chunk.center = (position + 0.5) * CHUNK_SIZE
center(c) == LET p == chunk_position(c) IN [i \in 1 .. 3 |-> (10 * p[i] + 5) * CHUNK_SIZE]

\* Frustum.__init__: tan and sec of the half field of view, as <<numerator, denominator>>
tan_y == <<3, 4>>
sec_y == <<5, 4>>
tan_x == <<4, 3>>
sec_x == <<5, 3>>

(***************************************************************************)
(* Frustum.is_on_frustum for a sphere (center, radius) and a camera.       *)
(***************************************************************************)
\* a variant of the sphere test without the far plane
sphere_test_no_far(sphere_center, radius, cam, near, far) ==
    LET sphere_vec == Sub(sphere_center, cam.position)
        f == normalize(cam.forward)
        u == normalize(cam.up)
        r == normalize(cam.right)
        sz == Dot(sphere_vec, f)
        depth == Max(sz, near)
        sy == Dot(sphere_vec, u)
        sx == Dot(sphere_vec, r)
    IN IF sz + radius < near THEN FALSE
       \* abs(sy) > depth * tan_y + radius * sec_y
       ELSE IF Abs(sy) * tan_y[2] * sec_y[2]
                 > depth * tan_y[1] * sec_y[2] + radius * sec_y[1] * tan_y[2] THEN FALSE
       \* abs(sx) > depth * tan_x + radius * sec_x
       ELSE IF Abs(sx) * tan_x[2] * sec_x[2]
                 > depth * tan_x[1] * sec_x[2] + radius * sec_x[1] * tan_x[2] THEN FALSE
       ELSE TRUE

\* the test of is_on_frustum, for the clip distances near and far
sphere_test(sphere_center, radius, cam, near, far) ==
    LET sphere_vec == Sub(sphere_center, cam.position)
        f == normalize(cam.forward)
        u == normalize(cam.up)
        r == normalize(cam.right)
        sz == Dot(sphere_vec, f)
        depth == Max(sz, near)
        sy == Dot(sphere_vec, u)
        sx == Dot(sphere_vec, r)
    IN IF sz + radius < near THEN FALSE
       ELSE IF sz - radius > far THEN FALSE
       \* abs(sy) > depth * tan_y + radius * sec_y
       ELSE IF Abs(sy) * tan_y[2] * sec_y[2]
                 > depth * tan_y[1] * sec_y[2] + radius * sec_y[1] * tan_y[2] THEN FALSE
       \* abs(sx) > depth * tan_x + radius * sec_x
       ELSE IF Abs(sx) * tan_x[2] * sec_x[2]
                 > depth * tan_x[1] * sec_x[2] + radius * sec_x[1] * tan_x[2] THEN FALSE
       ELSE TRUE

\* the test with the clip distances of the settings
sphere_on_frustum(sphere_center, radius, cam) ==
    sphere_test(sphere_center, radius, cam, NEAR, FAR)

\* is_on_frustum(chunk): a chunk has no radius attribute of its own
is_on_frustum(c, cam) == sphere_on_frustum(center(c), CHUNK_SPHERE_RADIUS, cam)

(***************************************************************************)
(* AdvancedFrustum: the six planes and the test against them.  A plane is  *)
(* kept with its normal before normalisation and the normal's length: the  *)
(* vectors forward * den + right * num with tan = num / den have the       *)
(* length of the numerator of sec for a basis of unit axis vectors.        *)
(***************************************************************************)
Cross(a, b) ==
    <<a[2] * b[3] - a[3] * b[2], a[3] * b[1] - a[1] * b[3], a[1] * b[2] - a[2] * b[1]>>

Neg(a) == [i \in 1 .. 3 |-> -a[i]]

\* a * v + b * w
Comb(a, v, b, w) == [i \in 1 .. 3 |-> a * v[i] + b * w[i]]

\* a side plane through the camera position: (normal, dot(-normal, pos))
side_plane(n, len, pos) == [normal |-> n, len |-> len, distance |-> Dot(Neg(n), pos)]

\* AdvancedFrustum._update_frustum_planes, for the clip distances near and far
_update_frustum_planes(cam, near, far) ==
    LET pos == cam.position
        forward == cam.forward
        up == cam.up
        right == cam.right
        near_center == Comb(1, pos, near, forward)
        far_center == Comb(1, pos, far, forward)
        left_normal == Cross(up, Comb(tan_x[2], forward, tan_x[1], right))
        right_normal == Cross(Comb(tan_x[2], forward, -tan_x[1], right), up)
        top_normal == Cross(right, Comb(tan_y[2], forward, tan_y[1], up))
        bottom_normal == Cross(Comb(tan_y[2], forward, -tan_y[1], up), right)
    IN << [normal |-> forward, len |-> 1, distance |-> Dot(Neg(forward), near_center)],
          [normal |-> Neg(forward), len |-> 1, distance |-> Dot(forward, far_center)],
          side_plane(left_normal, sec_x[1], pos),
          side_plane(right_normal, sec_x[1], pos),
          side_plane(top_normal, sec_y[1], pos),
          side_plane(bottom_normal, sec_y[1], pos) >>

\* AdvancedFrustum.sphere_vs_plane_distance, times the length of the normal
sphere_vs_plane_distance(sphere_center, plane) ==
    Dot(sphere_center, plane.normal) + plane.distance

\* the loop of precise_frustum_test from plane k on
RECURSIVE precise_loop(_, _, _, _, _)
precise_loop(sphere_center, radius, planes, k, inside_count) ==
    IF k > Len(planes)
    THEN IF inside_count = 6 THEN "INSIDE" ELSE "INTERSECTING"
    ELSE LET sphere_distance == sphere_vs_plane_distance(sphere_center, planes[k])
         IN IF sphere_distance < -radius * planes[k].len THEN "OUTSIDE"
            ELSE IF sphere_distance < radius * planes[k].len
            THEN precise_loop(sphere_center, radius, planes, k + 1, inside_count)
            ELSE precise_loop(sphere_center, radius, planes, k + 1, inside_count + 1)

\* AdvancedFrustum.precise_frustum_test: the radius is CHUNK_SPHERE_RADIUS
precise_frustum_test(sphere_center, planes) ==
    precise_loop(sphere_center, CHUNK_SPHERE_RADIUS, planes, 1, 0)

\* AdvancedFrustum.__init__ and DistanceCuller.__init__: FAR * 0.8
max_distance == (FAR * 8) \div 10
\* AdvancedFrustum.movement_threshold = CHUNK_SIZE * 0.5
movement_threshold == CHUNK_SIZE * 5

\* DistanceCuller.should_render
should_render(c, camera_pos) ==
    LET v == Sub(center(c), camera_pos) IN Dot(v, v) <= max_distance * max_distance

\* AdvancedFrustum.has_camera_moved_significantly; rotation_threshold is 0.1
has_camera_moved_significantly(cam, prev_pos, prev_forward) ==
    LET dv == Sub(cam.position, prev_pos)
        dir_dot == Dot(cam.forward, prev_forward)
    IN \/ Dot(dv, dv) > movement_threshold * movement_threshold
       \/ 10 * dir_dot < 10 - 1

(***************************************************************************)
(* OcclusionCuller.is_occluded: occs is the list of the occluders (chunks).*)
(* With ray_dir = v / |v|, a = 1 and b = 2 p / |v| for p = oc . v, so      *)
(* t = (-p - sqrt(p * p - c * |v|^2)) / |v|, and the test                  *)
(* 0.1 < t < ray_distance - 0.1 is made on t * |v|.                        *)
(***************************************************************************)
occludes(occ_center, ray_start, ray_end) ==
    LET v == Sub(ray_end, ray_start)
        len2 == Dot(v, v)
        ray_distance == sqrt(len2)
        oc == Sub(ray_start, occ_center)
        p == Dot(oc, v)
        c == Dot(oc, oc) - CHUNK_SPHERE_RADIUS * CHUNK_SPHERE_RADIUS
        disc == p * p - c * len2
    IN /\ len2 > 0
       /\ disc >= 0
       /\ LET tl == -p - sqrt(disc)
          IN 1 * ray_distance < tl /\ tl < (ray_distance - 1) * ray_distance

is_occluded(c, cam, occs, enabled) ==
    /\ enabled
    /\ occs # <<>>
    /\ \E k \in 1 .. Len(occs) :
          occs[k] # c /\ occludes(center(occs[k]), cam.position, center(c))

(***************************************************************************)
(* MultiThreadedCuller.                                                    *)
(***************************************************************************)
\* MultiThreadedCuller.num_threads
num_threads == 4
\* MultiThreadedCuller.chunk_threshold (100 in the source; scaled to the model's lists)
chunk_threshold == 2
\* the list length above which cull_all_chunks goes to the threads (200 in the source)
threading_min == 4

\* one slice chunks[start:end] of Python, 0-based, end clipped to the length
Slice(chunks, start, end) ==
    LET e == Min(end, Len(chunks))
    IN IF start >= e THEN <<>> ELSE [k \in 1 .. (e - start) |-> chunks[start + k]]

\* MultiThreadedCuller._divide_chunks
RECURSIVE divide_from(_, _, _)
divide_from(chunks, group_size, i) ==
    IF i >= num_threads THEN <<>>
    ELSE LET start == i * group_size
             end == IF i < num_threads - 1 THEN start + group_size ELSE Len(chunks)
         IN (IF start < Len(chunks) THEN <<Slice(chunks, start, end)>> ELSE <<>>)
            \o divide_from(chunks, group_size, i + 1)

\* a division in which the last group is cut to group_size like the others
_divide_chunks_cut(chunks) ==
    LET group_size == Max(1, Len(chunks) \div num_threads)
    IN [i \in 1 .. Min(num_threads, Len(chunks)) |->
           Slice(chunks, (i - 1) * group_size, i * group_size)]

_divide_chunks(chunks) == divide_from(chunks, Max(1, Len(chunks) \div num_threads), 0)

\* [c for c in chunks if frustum.is_on_frustum(c)]
RECURSIVE frustum_filter(_, _)
frustum_filter(chunks, cam) ==
    IF chunks = <<>> THEN <<>>
    ELSE (IF is_on_frustum(Head(chunks), cam) THEN <<Head(chunks)>> ELSE <<>>)
         \o frustum_filter(Tail(chunks), cam)

\* visible_chunks.extend(result_list) for every result list
RECURSIVE extend_all(_)
extend_all(results) ==
    IF results = <<>> THEN <<>> ELSE Head(results) \o extend_all(Tail(results))

(***************************************************************************)
(* The state of the MasterCullingSystem and of a cull_all_chunks call.     *)
(***************************************************************************)
VARIABLES
    camera,               \* the camera: position, forward, up, right
    enable,               \* the feature toggles
    occluders,            \* OcclusionCuller.occluders
    prev_camera_pos,      \* AdvancedFrustum.prev_camera_pos
    prev_camera_forward,  \* AdvancedFrustum.prev_camera_forward
    prev_visible,         \* AdvancedFrustum.prev_visible
    frame_count,          \* AdvancedFrustum.frame_count
    stats,                \* the CullStats object of the frustum culler
    last_visible_count,   \* MasterCullingSystem.last_visible_count
    cull_pc,              \* the primary thread: "idle", "start", "join", "return"
    call,                 \* the locals of the call in flight
    chunk_groups,         \* cull_chunks_threaded: the groups
    results,              \* cull_chunks_threaded: one result list per group
    threads,              \* per worker: "new", "running" or "done"
    thread_pos,           \* per worker: the number of chunks of its group it has done
    main_i,               \* the primary thread's index in its start loop and join loop
    visible,              \* the visible list the call returns
    tested,               \* history: per chunk, the is_on_frustum calls of this call
    culls,                \* history: the number of cull_all_chunks calls so far
    received              \* history: the counters of stats when the last call returned it

cull_vars == <<camera, enable, occluders, prev_camera_pos, prev_camera_forward,
               prev_visible, frame_count, stats, last_visible_count, cull_pc, call,
               chunk_groups, results, threads, thread_pos, main_i, visible, tested,
               culls, received>>

\* the number of cull_all_chunks calls a behaviour of the model makes
MaxCulls == 2
\* the number of occluders registered in the model
MaxOccluders == 1

\* CullStats.reset
stats_reset == [frustum_culled |-> 0, occlusion_culled |-> 0, distance_culled |-> 0,
                temporal_skipped |-> 0, total_tested |-> 0]

\* the cameras of the model (the player, an external collaborator)
Cameras ==
    { [position |-> <<15, 15, 15>>, forward |-> <<0, 0, 1>>,
       up |-> <<0, 1, 0>>, right |-> <<-1, 0, 0>>],
      [position |-> <<-30, 15, 15>>, forward |-> <<1, 0, 0>>,
       up |-> <<0, 1, 0>>, right |-> <<0, 0, 1>>] }

camera_init == [position |-> <<15, 15, 15>>, forward |-> <<0, 0, 1>>,
                up |-> <<0, 1, 0>>, right |-> <<-1, 0, 0>>]

\* World.chunks, as a list of chunk indices
AllChunks == [k \in 1 .. WORLD_VOL |-> k - 1]

\* World.render: candidates = [c for c in self.chunks if not c.is_empty]
candidates(emp) == SelectSeq(AllChunks, LAMBDA c : ~emp[c])

\* the chunk lists cull_all_chunks is called with in the model
ChunkLists ==
    { candidates([c \in ChunkIds |-> ~AnyVoxel(build_voxels("step", c))]),
      candidates([c \in ChunkIds |-> c >= WORLD_W]) }

call_init == [chunks |-> <<>>, moved |-> TRUE, distance_passed |-> <<>>,
              threaded |-> FALSE, frustum_passed |-> <<>>]

\* the number of is_on_frustum calls per chunk when each chunk of the list is tested once
tested_once(chunks) == [c \in ChunkIds |-> Count(chunks, c)]

\* MasterCullingSystem.__init__ and the constructors it calls
CullInit ==
    /\ camera = camera_init
    /\ enable = [distance |-> TRUE, occlusion |-> FALSE, temporal |-> TRUE,
                 threading |-> TRUE, lod |-> TRUE]
    /\ occluders = <<>>
    /\ prev_camera_pos = <<0, 0, 0>>
    /\ prev_camera_forward = <<0, 0, 1>>
    /\ prev_visible = {}
    /\ frame_count = 0
    /\ stats = stats_reset
    /\ last_visible_count = 0
    /\ cull_pc = "idle"
    /\ call = call_init
    /\ chunk_groups = <<>>
    /\ results = <<>>
    /\ threads = <<>>
    /\ thread_pos = <<>>
    /\ main_i = 0
    /\ visible = <<>>
    /\ tested = [c \in ChunkIds |-> 0]
    /\ culls = 0
    /\ received = stats_reset

(***************************************************************************)
(* cull_all_chunks, pass by pass.                                          *)
(***************************************************************************)
\* 1. the temporal check (lines 397-403)
camera_moved(cam, en, ppos, pfwd) ==
    IF en.temporal THEN has_camera_moved_significantly(cam, ppos, pfwd) ELSE TRUE

\* 2. the distance pass (lines 406-414)
RECURSIVE distance_filter(_, _)
distance_filter(chunks, camera_pos) ==
    IF chunks = <<>> THEN <<>>
    ELSE (IF should_render(Head(chunks), camera_pos) THEN <<Head(chunks)>> ELSE <<>>)
         \o distance_filter(Tail(chunks), camera_pos)

\* a distance pass that rejects nothing
distance_pass_all(chunks, cam, en) == chunks

distance_pass(chunks, cam, en) ==
    IF en.distance THEN distance_filter(chunks, cam.position) ELSE chunks

\* the statistics after passes 1 and 2
stats_after_distance(chunks, cam, en, moved) ==
    [stats_reset EXCEPT
        !.total_tested = Len(chunks),
        !.temporal_skipped = IF en.temporal /\ ~moved THEN Len(chunks) \div 10 ELSE 0,
        !.distance_culled = Len(chunks) - Len(distance_pass(chunks, cam, en))]

\* 3. whether the frustum pass goes to the threads (line 417)
use_threads(en, distance_passed) == en.threading /\ Len(distance_passed) > threading_min

\* 4. the occlusion pass (lines 430-437)
RECURSIVE occlusion_filter(_, _, _)
occlusion_filter(chunks, cam, occs) ==
    IF chunks = <<>> THEN <<>>
    ELSE (IF ~is_occluded(Head(chunks), cam, occs, TRUE) THEN <<Head(chunks)>> ELSE <<>>)
         \o occlusion_filter(Tail(chunks), cam, occs)

\* an occlusion pass that does not look at the camera's movement
occlusion_pass_always(frustum_passed, cam, en, moved, occs) ==
    IF en.occlusion THEN occlusion_filter(frustum_passed, cam, occs)
    ELSE frustum_passed

occlusion_pass(frustum_passed, cam, en, moved, occs) ==
    IF en.occlusion /\ moved THEN occlusion_filter(frustum_passed, cam, occs)
    ELSE frustum_passed

\* passes 4 and 5 and the return (lines 429-448), given the frustum pass's result
\* and the count it added to stats.frustum_culled
FinishCall(st, moved, frustum_passed, frustum_culled) ==
    LET vis == occlusion_pass(frustum_passed, camera, enable, moved, occluders)
    IN /\ stats' = [st EXCEPT !.frustum_culled = frustum_culled,
                              !.occlusion_culled = Len(frustum_passed) - Len(vis)]
       /\ visible' = vis
       /\ last_visible_count' = Len(vis)
       /\ IF enable.temporal
          THEN /\ prev_camera_pos' = camera.position
               /\ prev_camera_forward' = camera.forward
               /\ prev_visible' = {vis[k] : k \in 1 .. Len(vis)}
               /\ frame_count' = frame_count + 1
          ELSE UNCHANGED <<prev_camera_pos, prev_camera_forward, prev_visible, frame_count>>
       /\ cull_pc' = "return"

\* cull_all_chunks when the frustum pass runs on the primary thread (lines 385-448)
CullSequential(chunks) ==
    LET moved == camera_moved(camera, enable, prev_camera_pos, prev_camera_forward)
        distance_passed == distance_pass(chunks, camera, enable)
        frustum_passed == frustum_filter(distance_passed, camera)
    IN /\ cull_pc = "idle"
       /\ culls < MaxCulls
       /\ ~use_threads(enable, distance_passed)
       /\ culls' = culls + 1
       /\ call' = [chunks |-> chunks, moved |-> moved, distance_passed |-> distance_passed,
                   threaded |-> FALSE, frustum_passed |-> frustum_passed]
       /\ tested' = tested_once(distance_passed)
       /\ FinishCall(stats_after_distance(chunks, camera, enable, moved), moved,
                     frustum_passed, Len(distance_passed) - Len(frustum_passed))
       /\ UNCHANGED <<camera, enable, occluders, received, chunk_groups, results, threads,
                      thread_pos, main_i>>

\* cull_all_chunks up to the point where cull_chunks_threaded has divided the chunks
\* (lines 385-420 and 316-323); a list below chunk_threshold is filtered in place
CullThreaded(chunks) ==
    LET moved == camera_moved(camera, enable, prev_camera_pos, prev_camera_forward)
        distance_passed == distance_pass(chunks, camera, enable)
        groups == _divide_chunks(distance_passed)
    IN /\ cull_pc = "idle"
       /\ culls < MaxCulls
       /\ use_threads(enable, distance_passed)
       /\ culls' = culls + 1
       /\ IF Len(distance_passed) < chunk_threshold
          THEN /\ call' = [chunks |-> chunks, moved |-> moved,
                           distance_passed |-> distance_passed, threaded |-> TRUE,
                           frustum_passed |-> frustum_filter(distance_passed, camera)]
               /\ tested' = tested_once(distance_passed)
               /\ FinishCall(stats_after_distance(chunks, camera, enable, moved), moved,
                             frustum_filter(distance_passed, camera), 0)
               /\ UNCHANGED <<chunk_groups, results, threads, thread_pos, main_i>>
          ELSE /\ call' = [chunks |-> chunks, moved |-> moved,
                           distance_passed |-> distance_passed, threaded |-> TRUE,
                           frustum_passed |-> <<>>]
               /\ stats' = stats_after_distance(chunks, camera, enable, moved)
               /\ chunk_groups' = groups
               /\ results' = [k \in 1 .. Len(groups) |-> <<>>]
               /\ threads' = [k \in 1 .. Len(groups) |-> "new"]
               /\ thread_pos' = [k \in 1 .. Len(groups) |-> 0]
               /\ main_i' = 1
               /\ tested' = [c \in ChunkIds |-> 0]
               /\ cull_pc' = "start"
               /\ UNCHANGED <<prev_camera_pos, prev_camera_forward, prev_visible,
                              frame_count, last_visible_count, visible>>
       /\ UNCHANGED <<camera, enable, occluders, received>>

\* the start loop of cull_chunks_threaded (lines 325-331): thread.start()
StartThread ==
    /\ cull_pc = "start"
    /\ threads' = [threads EXCEPT ![main_i] = "running"]
    /\ IF main_i = Len(chunk_groups)
       THEN cull_pc' = "join" /\ main_i' = 1
       ELSE cull_pc' = cull_pc /\ main_i' = main_i + 1
    /\ UNCHANGED <<received, camera, enable, occluders, prev_camera_pos, prev_camera_forward,
                   prev_visible, frame_count, stats, last_visible_count, call,
                   chunk_groups, results, thread_pos, visible, tested, culls>>

\* one iteration of _cull_chunk_group in worker i (lines 356-360)
WorkerStep(i) ==
    /\ cull_pc \in {"start", "join"}
    /\ i \in 1 .. Len(threads)
    /\ threads[i] = "running"
    /\ LET chunk == chunk_groups[i][thread_pos[i] + 1]
       IN /\ results' = [results EXCEPT ![i] =
                            IF is_on_frustum(chunk, camera) THEN Append(@, chunk) ELSE @]
          /\ tested' = [tested EXCEPT ![chunk] = @ + 1]
    /\ thread_pos' = [thread_pos EXCEPT ![i] = @ + 1]
    /\ threads' = [threads EXCEPT ![i] =
                      IF thread_pos[i] + 1 = Len(chunk_groups[i]) THEN "done" ELSE @]
    /\ UNCHANGED <<received, camera, enable, occluders, prev_camera_pos, prev_camera_forward,
                   prev_visible, frame_count, stats, last_visible_count, cull_pc, call,
                   chunk_groups, main_i, visible, culls>>

\* a join loop that does not wait for the worker
JoinThread_nowait ==
    /\ cull_pc = "join"
    /\ main_i <= Len(threads)
    /\ main_i' = main_i + 1
    /\ UNCHANGED <<received, camera, enable, occluders, prev_camera_pos, prev_camera_forward,
                   prev_visible, frame_count, stats, last_visible_count, cull_pc, call,
                   chunk_groups, results, threads, thread_pos, visible, tested, culls>>

\* the join loop of cull_chunks_threaded (lines 334-335): thread.join() returns
JoinThread ==
    /\ cull_pc = "join"
    /\ main_i <= Len(threads)
    /\ threads[main_i] = "done"
    /\ main_i' = main_i + 1
    /\ UNCHANGED <<received, camera, enable, occluders, prev_camera_pos, prev_camera_forward,
                   prev_visible, frame_count, stats, last_visible_count, cull_pc, call,
                   chunk_groups, results, threads, thread_pos, visible, tested, culls>>

\* the merge of cull_chunks_threaded and the rest of cull_all_chunks (lines 337-341, 429-448)
CullFinish ==
    /\ cull_pc = "join"
    /\ main_i > Len(threads)
    /\ call' = [call EXCEPT !.frustum_passed = extend_all(results)]
    /\ FinishCall(stats, call.moved, extend_all(results), 0)
    /\ UNCHANGED <<received, camera, enable, occluders, chunk_groups, results, threads,
                   thread_pos, main_i, tested, culls>>

\* the return of cull_all_chunks (line 448): its locals are gone, what stays is the
\* state of the culling system; the caller receives the CullStats object itself
Return ==
    /\ cull_pc = "return"
    /\ cull_pc' = "idle"
    /\ call' = call_init
    /\ chunk_groups' = <<>>
    /\ results' = <<>>
    /\ threads' = <<>>
    /\ thread_pos' = <<>>
    /\ main_i' = 0
    /\ visible' = <<>>
    /\ tested' = [c \in ChunkIds |-> 0]
    /\ received' = stats
    /\ UNCHANGED <<camera, enable, occluders, prev_camera_pos, prev_camera_forward,
                   prev_visible, frame_count, stats, last_visible_count, culls>>

\* the player moves the camera between two frames
MoveCamera(cam) ==
    /\ cull_pc = "idle"
    /\ culls < MaxCulls
    /\ cam # camera
    /\ camera' = cam
    /\ UNCHANGED <<received, enable, occluders, prev_camera_pos, prev_camera_forward,
                   prev_visible, frame_count, stats, last_visible_count, cull_pc, call,
                   chunk_groups, results, threads, thread_pos, main_i, visible, tested,
                   culls>>

\* MasterCullingSystem.toggle_feature(feature_name)
toggle_feature(feature) ==
    /\ cull_pc = "idle"
    /\ culls < MaxCulls
    /\ enable' = [enable EXCEPT ![feature] = ~@]
    /\ UNCHANGED <<received, camera, occluders, prev_camera_pos, prev_camera_forward,
                   prev_visible, frame_count, stats, last_visible_count, cull_pc, call,
                   chunk_groups, results, threads, thread_pos, main_i, visible, tested,
                   culls>>

\* OcclusionCuller.add_occluder(chunk), for a chunk flagged is_solid
add_occluder(c) ==
    /\ cull_pc = "idle"
    /\ culls < MaxCulls
    /\ Len(occluders) < MaxOccluders
    /\ occluders' = Append(occluders, c)
    /\ UNCHANGED <<received, camera, enable, prev_camera_pos, prev_camera_forward,
                   prev_visible, frame_count, stats, last_visible_count, cull_pc, call,
                   chunk_groups, results, threads, thread_pos, main_i, visible, tested,
                   culls>>

(***************************************************************************)
(* The state of the world, of its voxel handler and of the mesh scheduler. *)
(***************************************************************************)
VARIABLES
    voxels,                  \* World.voxels: chunk index -> voxel index -> id
    is_empty,                \* Chunk.is_empty, per chunk
    mesh,                    \* Chunk.mesh is not None, per chunk
    chunks_to_mesh,          \* World.chunks_to_mesh, a list of chunk indices
    meshes_built,            \* World.meshes_built
    mesh_building_complete,  \* World.mesh_building_complete
    handler,                 \* the fields of the VoxelHandler
    player,                  \* app.player: position (half cells) and forward
    rebuilt,                 \* history: the build_mesh calls of the last operation, in order
    sched_built,             \* history: per chunk, the build_mesh calls made by World.update
    last_op,                 \* history: the last operation
    ray,                     \* history: what the last ray_cast computed
    edits                    \* history: the number of set_voxel calls so far

world_vars == <<voxels, is_empty, mesh, chunks_to_mesh, meshes_built,
                mesh_building_complete, handler, player, rebuilt, sched_built,
                last_op, ray, edits>>

(***************************************************************************)
(* The state outside the world and the culler: the call of a pure function *)
(* under examination, and the main loop of the engine.                     *)
(***************************************************************************)
VARIABLES
    probe,                   \* the function applied last, its arguments and its result
    run                      \* VoxelEngine.run: position in the loop, is_running, history

rest_vars == <<probe, run>>

\* World.meshes_per_frame
meshes_per_frame == 10

(***************************************************************************)
(* VoxelHandler.add_voxel: the voxels, the is_empty flags and the list of  *)
(* build_mesh calls it leaves.                                             *)
(***************************************************************************)
\* an add_voxel that does not ask whether the target cell is empty
add_voxel_overwrite(h, vox, emp) ==
    LET same == [voxels |-> vox, is_empty |-> emp, rebuilt |-> <<>>]
    IN IF ~truthy(h.voxel_id) THEN same
       ELSE IF h.voxel_world_pos = NoneVec \/ h.voxel_normal = NoneVec THEN same
       ELSE LET target == [i \in 1 .. 3 |-> h.voxel_world_pos[i] + h.voxel_normal[i]]
                result == get_voxel_id(vox, target)
            IN IF result[4] # None
               THEN [voxels |-> [vox EXCEPT ![result[4]][result[2]] = h.new_voxel_id],
                     is_empty |-> [emp EXCEPT ![result[4]] = FALSE],
                     rebuilt |-> <<result[4]>>]
               ELSE same

\* a variant of add_voxel that clears an occupied target
add_voxel_toggle(h, vox, emp) ==
    LET same == [voxels |-> vox, is_empty |-> emp, rebuilt |-> <<>>]
    IN IF ~truthy(h.voxel_id) THEN same
       ELSE IF h.voxel_world_pos = NoneVec \/ h.voxel_normal = NoneVec THEN same
       ELSE LET target == [i \in 1 .. 3 |-> h.voxel_world_pos[i] + h.voxel_normal[i]]
                result == get_voxel_id(vox, target)
            IN IF result[4] # None
               THEN [voxels |-> [vox EXCEPT ![result[4]][result[2]] =
                                    IF result[1] = 0 THEN h.new_voxel_id ELSE 0],
                     is_empty |-> [emp EXCEPT ![result[4]] = FALSE],
                     rebuilt |-> <<result[4]>>]
               ELSE same

add_voxel(h, vox, emp) ==
    LET same == [voxels |-> vox, is_empty |-> emp, rebuilt |-> <<>>]
    IN IF ~truthy(h.voxel_id) THEN same
       ELSE IF h.voxel_world_pos = NoneVec \/ h.voxel_normal = NoneVec THEN same
       ELSE LET target == [i \in 1 .. 3 |-> h.voxel_world_pos[i] + h.voxel_normal[i]]
                result == get_voxel_id(vox, target)
            IN IF result[1] = 0 /\ result[4] # None
               THEN [voxels |-> [vox EXCEPT ![result[4]][result[2]] = h.new_voxel_id],
                     is_empty |-> [emp EXCEPT ![result[4]] = FALSE],
                     rebuilt |-> <<result[4]>>]
               ELSE same

\* VoxelHandler.rebuild_adj_chunk: the build_mesh calls it makes
rebuild_adj_chunk(adj_voxel_pos) ==
    LET index == get_chunk_index(adj_voxel_pos)
    IN IF index # -1 THEN <<index>> ELSE <<>>

\* a neighbor rebuild that looks at the low face only
rebuild_adjacent_axis_low(l, w, axis) ==
    IF l[axis] = 0 THEN rebuild_adj_chunk([w EXCEPT ![axis] = @ - 1]) ELSE <<>>

\* one axis of VoxelHandler.rebuild_adjacent_chunks (axis 1 = x, 2 = y, 3 = z)
rebuild_adjacent_axis(l, w, axis) ==
    IF l[axis] = 0 THEN rebuild_adj_chunk([w EXCEPT ![axis] = @ - 1])
    ELSE IF l[axis] = CHUNK_SIZE - 1 THEN rebuild_adj_chunk([w EXCEPT ![axis] = @ + 1])
    ELSE <<>>

\* VoxelHandler.rebuild_adjacent_chunks: the build_mesh calls it makes, in order
rebuild_adjacent_chunks(h) ==
    IF h.voxel_local_pos = NoneVec \/ h.voxel_world_pos = NoneVec THEN <<>>
    ELSE rebuild_adjacent_axis(h.voxel_local_pos, h.voxel_world_pos, 1)
         \o rebuild_adjacent_axis(h.voxel_local_pos, h.voxel_world_pos, 2)
         \o rebuild_adjacent_axis(h.voxel_local_pos, h.voxel_world_pos, 3)

\* a remove_voxel that leaves the rebuild to someone else
remove_voxel_lazy(h, vox, emp) ==
    IF truthy(h.voxel_id) /\ h.chunk # None
    THEN [voxels |-> [vox EXCEPT ![h.chunk][h.voxel_index] = 0],
          is_empty |-> emp,
          rebuilt |-> <<>>]
    ELSE [voxels |-> vox, is_empty |-> emp, rebuilt |-> <<>>]

\* VoxelHandler.remove_voxel (the debris it spawns is no state of the core)
remove_voxel(h, vox, emp) ==
    IF truthy(h.voxel_id) /\ h.chunk # None
    THEN [voxels |-> [vox EXCEPT ![h.chunk][h.voxel_index] = 0],
          is_empty |-> emp,
          rebuilt |-> <<h.chunk>> \o rebuild_adjacent_chunks(h)]
    ELSE [voxels |-> vox, is_empty |-> emp, rebuilt |-> <<>>]

\* VoxelHandler.set_voxel
set_voxel(h, vox, emp) ==
    IF h.interaction_mode # 0 THEN add_voxel(h, vox, emp) ELSE remove_voxel(h, vox, emp)

\* Chunk.build_mesh on every chunk of the list
build_all(m, cs) == [c \in ChunkIds |-> m[c] \/ (\E k \in 1 .. Len(cs) : cs[k] = c)]

(***************************************************************************)
(* World.update, the progressive mesh building (lines 50-60): the chunks   *)
(* popped and built in this frame, in order, and the list left.            *)
(***************************************************************************)
\* a loop without the per-frame quota
mesh_loop_all(queue, meshes_this_frame, built) ==
    [queue |-> <<>>, built |-> built \o queue]

RECURSIVE mesh_loop(_, _, _)
mesh_loop(queue, meshes_this_frame, built) ==
    IF meshes_this_frame < meshes_per_frame /\ queue # <<>>
    THEN mesh_loop(Tail(queue), meshes_this_frame + 1, Append(built, Head(queue)))
    ELSE [queue |-> queue, built |-> built]

\* a scheduler that never notices the empty worklist
progressive_build_stall(queue, complete) ==
    IF ~complete /\ queue # <<>>
    THEN LET r == mesh_loop(queue, 0, <<>>)
         IN [queue |-> r.queue, built |-> r.built, complete |-> FALSE]
    ELSE [queue |-> queue, built |-> <<>>, complete |-> complete]

progressive_build(queue, complete) ==
    IF ~complete /\ queue # <<>>
    THEN LET r == mesh_loop(queue, 0, <<>>)
         IN [queue |-> r.queue, built |-> r.built, complete |-> (r.queue = <<>>)]
    ELSE [queue |-> queue, built |-> <<>>, complete |-> complete]


(***************************************************************************)
(* The player (an external collaborator): the poses it takes in the model, *)
(* <<position in half cells, forward * MAX_RAY_DIST>>.                     *)
(***************************************************************************)
Poses ==
    { <<<<3, 7, 3>>, <<0, -3, 0>>>>,     \* above the ground, looking down
      <<<<1, 5, 1>>, <<0, -3, 0>>>>,     \* above the corner column of the world
      <<<<7, 7, 5>>, <<0, -3, 0>>>>,     \* above a column on two chunk faces
      <<<<2, 5, 3>>, <<0, -3, 0>>>>,     \* on a cell boundary in x
      <<<<3, 11, 3>>, <<0, 3, 0>>>>,     \* looking up and out of the world
      <<<<-1, 3, 3>>, <<3, 0, 0>>>>,     \* half a cell outside, looking in
      <<<<-3, 3, 3>>, <<3, 0, 0>>>>,     \* one and a half cells outside, looking in
      <<<<9, 1, 3>>, <<3, 0, 0>>>>,      \* inside the ground, looking along x
      <<<<3, 5, 3>>, <<2, -2, 1>>>>,     \* x and y cross a boundary together
      <<<<3, 5, 3>>, <<2, -1, 2>>>> }    \* x and z cross a boundary together

\* settings.PLAYER_POS and the player's first view direction
player_init == [position |-> <<3, 7, 3>>, forward |-> <<0, -3, 0>>]

ray_init == [hit |-> FALSE, result |-> <<0, 0, <<0, 0, 0>>, None>>, pos |-> <<0, 0, 0>>,
             normal |-> <<0, 0, 0>>, trace |-> <<>>]

(***************************************************************************)
(* World.__init__: build_chunks, then every chunk on the worklist.         *)
(***************************************************************************)
WorldInit ==
    /\ \E terrain \in Terrains :
          /\ voxels = [c \in ChunkIds |-> build_voxels(terrain, c)]
          /\ is_empty = [c \in ChunkIds |-> ~AnyVoxel(build_voxels(terrain, c))]
    /\ mesh = [c \in ChunkIds |-> FALSE]
    /\ chunks_to_mesh = [k \in 1 .. WORLD_VOL |-> k - 1]
    /\ meshes_built = 0
    /\ mesh_building_complete = FALSE
    /\ handler = handler_init
    /\ player = player_init
    /\ rebuilt = <<>>
    /\ sched_built = [c \in ChunkIds |-> 0]
    /\ last_op = "init"
    /\ ray = ray_init
    /\ edits = 0

(***************************************************************************)
(* World.update in a frame in which the player stands at pose: the         *)
(* progressive mesh building, then VoxelHandler.update (the ray cast).     *)
(***************************************************************************)
Update(pose) ==
    \E b \in {progressive_build(chunks_to_mesh, mesh_building_complete)},
       rc \in {ray_cast(voxels, pose[1], pose[2])} :
       /\ player' = [position |-> pose[1], forward |-> pose[2]]
       /\ chunks_to_mesh' = b.queue
       /\ meshes_built' = meshes_built + Len(b.built)
       /\ mesh_building_complete' = b.complete
       /\ mesh' = build_all(mesh, b.built)
       /\ sched_built' = [c \in ChunkIds |-> sched_built[c] + Count(b.built, c)]
       /\ rebuilt' = b.built
       /\ handler' = after_ray_cast(handler, rc)
       /\ ray' = rc
       /\ last_op' = "update"
       /\ UNCHANGED <<voxels, is_empty, edits>>
       /\ UNCHANGED <<cull_vars, probe>>

\* VoxelHandler.set_voxel, called by the player's event handler
SetVoxel ==
    LET r == set_voxel(handler, voxels, is_empty)
    IN /\ edits < MaxEdits
       /\ edits' = edits + 1
       /\ voxels' = r.voxels
       /\ is_empty' = r.is_empty
       /\ mesh' = build_all(mesh, r.rebuilt)
       /\ rebuilt' = r.rebuilt
       /\ last_op' = IF handler.interaction_mode # 0 THEN "add_voxel" ELSE "remove_voxel"
       /\ UNCHANGED <<chunks_to_mesh, meshes_built, mesh_building_complete, handler,
                      player, sched_built, ray>>
       /\ UNCHANGED <<cull_vars, probe>>

\* VoxelHandler.switch_mode
SwitchMode ==
    /\ handler' = [handler EXCEPT !.interaction_mode = IF @ # 0 THEN 0 ELSE 1]
    /\ rebuilt' = <<>>
    /\ last_op' = "switch_mode"
    /\ UNCHANGED <<voxels, is_empty, mesh, chunks_to_mesh, meshes_built,
                   mesh_building_complete, player, sched_built, ray, edits>>
    /\ UNCHANGED <<cull_vars, probe>>

vars == <<world_vars, cull_vars, rest_vars>>

\* no function is under examination
no_probe == [op |-> "none"]

\* VoxelEngine.__init__: the engine is running and VoxelEngine.run is about to
\* test its loop condition; no frame has started, nothing was raised
run_init ==
    [pc |-> "while", is_running |-> TRUE, frames |-> 0, raised |-> "none",
     phases |-> <<>>, quit |-> FALSE]

\* the main loop has not been entered and no function is under examination
Rest == probe = no_probe /\ run = run_init

(***************************************************************************)
(* The world with its voxel handler and mesh scheduler: the culler rests.  *)
(***************************************************************************)
Init == WorldInit /\ CullInit /\ Rest

Next ==
    \/ \E pose \in Poses : Update(pose) /\ UNCHANGED run
    \/ SetVoxel /\ UNCHANGED run
    \/ SwitchMode /\ UNCHANGED run

Spec == Init /\ [][Next]_vars

(***************************************************************************)
(* The same world with a player that takes two poses: VoxelEngine.run      *)
(* calls World.update in every frame of the main loop, so the update is    *)
(* never postponed forever.                                                *)
(***************************************************************************)
FairPoses == { <<<<3, 7, 3>>, <<0, -3, 0>>>>, <<<<3, 11, 3>>, <<0, 3, 0>>>> }

Frame == \E pose \in FairPoses : Update(pose) /\ UNCHANGED run

NextFair ==
    \/ Frame
    \/ SetVoxel /\ UNCHANGED run
    \/ SwitchMode /\ UNCHANGED run

SpecFair == Init /\ [][NextFair]_vars /\ WF_vars(Frame)

(***************************************************************************)
(* The culling system on its own: the world's variables hold no world.     *)
(***************************************************************************)
NoWorld ==
    /\ voxels = <<>>
    /\ is_empty = <<>>
    /\ mesh = <<>>
    /\ chunks_to_mesh = <<>>
    /\ meshes_built = 0
    /\ mesh_building_complete = FALSE
    /\ handler = handler_init
    /\ player = player_init
    /\ rebuilt = <<>>
    /\ sched_built = <<>>
    /\ last_op = "init"
    /\ ray = ray_init
    /\ edits = 0

InitCull == NoWorld /\ CullInit /\ Rest

\* the chunks registered as occluders in the model
OccluderChunks == {3}

NextCull ==
    \/ \E chunks \in ChunkLists : CullSequential(chunks) /\ UNCHANGED <<world_vars, rest_vars>>
    \/ \E chunks \in ChunkLists : CullThreaded(chunks) /\ UNCHANGED <<world_vars, rest_vars>>
    \/ StartThread /\ UNCHANGED <<world_vars, rest_vars>>
    \/ \E i \in 1 .. num_threads : WorkerStep(i) /\ UNCHANGED <<world_vars, rest_vars>>
    \/ JoinThread /\ UNCHANGED <<world_vars, rest_vars>>
    \/ CullFinish /\ UNCHANGED <<world_vars, rest_vars>>
    \/ Return /\ UNCHANGED <<world_vars, rest_vars>>
    \/ \E cam \in Cameras : MoveCamera(cam) /\ UNCHANGED <<world_vars, rest_vars>>
    \/ \E feature \in {"distance", "occlusion", "temporal", "threading"} :
          toggle_feature(feature) /\ UNCHANGED <<world_vars, rest_vars>>
    \/ \E c \in OccluderChunks : add_occluder(c) /\ UNCHANGED <<world_vars, rest_vars>>

SpecCull == InitCull /\ [][NextCull]_vars

(***************************************************************************)
(* The culling system with a caller that keeps what each call was given    *)
(* and what it returned, to hold the next call against it.                 *)
(***************************************************************************)
\* the return of cull_all_chunks, the caller keeping the call's inputs and its
\* visible list
ReturnKept ==
    /\ Return
    /\ probe' = [op |-> "cull_all_chunks", chunks |-> call.chunks, camera |-> camera,
                 enable |-> enable, occluders |-> occluders, visible |-> visible]
    /\ UNCHANGED <<world_vars, run>>

NextRepeat ==
    \/ \E chunks \in ChunkLists : CullSequential(chunks) /\ UNCHANGED <<world_vars, rest_vars>>
    \/ \E chunks \in ChunkLists : CullThreaded(chunks) /\ UNCHANGED <<world_vars, rest_vars>>
    \/ StartThread /\ UNCHANGED <<world_vars, rest_vars>>
    \/ \E i \in 1 .. num_threads : WorkerStep(i) /\ UNCHANGED <<world_vars, rest_vars>>
    \/ JoinThread /\ UNCHANGED <<world_vars, rest_vars>>
    \/ CullFinish /\ UNCHANGED <<world_vars, rest_vars>>
    \/ ReturnKept
    \/ \E cam \in Cameras : MoveCamera(cam) /\ UNCHANGED <<world_vars, rest_vars>>
    \/ \E feature \in {"distance", "occlusion", "temporal", "threading"} :
          toggle_feature(feature) /\ UNCHANGED <<world_vars, rest_vars>>
    \/ \E c \in OccluderChunks : add_occluder(c) /\ UNCHANGED <<world_vars, rest_vars>>

SpecRepeat == InitCull /\ [][NextRepeat]_vars

(***************************************************************************)
(* The pure functions on their own: the world is the one just built, an    *)
(* argument is drawn at the start and one step applies a function to it.   *)
(***************************************************************************)
\* how far outside the world bounds the examined coordinates reach, in cells
ProbeMargin == 2

\* the integer world coordinates examined
ProbePositions ==
    (-ProbeMargin .. WORLD_W * CHUNK_SIZE - 1 + ProbeMargin)
        \X (-ProbeMargin .. WORLD_H * CHUNK_SIZE - 1 + ProbeMargin)
        \X (-ProbeMargin .. WORLD_D * CHUNK_SIZE - 1 + ProbeMargin)

\* the cameras examined: those of the culler, one at the origin looking down +z,
\* and one whose right vector points the other way
ProbeCameras ==
    Cameras \cup
    { [position |-> <<0, 0, 0>>, forward |-> <<0, 0, 1>>,
       up |-> <<0, 1, 0>>, right |-> <<-1, 0, 0>>],
      [position |-> <<0, 0, 0>>, forward |-> <<0, 0, 1>>,
       up |-> <<0, 1, 0>>, right |-> <<1, 0, 0>>] }

\* the clip distances examined, <<near, far>> in tenths of a cell: those of the
\* settings, and near 0.1 with far 100
ProbeRanges == { <<NEAR, FAR>>, <<1, 1000>> }

\* depths along the view axis, lateral offsets and radii, in tenths of a cell
SphereDepths == {-100, -30, 0, 1, 10, 40, 75, 76, 110, 500, 1000, 1100}
SphereOffsets == {-200, 0, 30}
SphereRadii == {0, 1, 26, 50, 80}

\* the point at depth d, a to the right of and b above the view axis of cam
ViewPoint(cam, d, a, b) ==
    [i \in 1 .. 3 |-> cam.position[i] + d * cam.forward[i] + a * cam.right[i]
                        + b * cam.up[i]]

ProbeSpheres ==
    { [center |-> ViewPoint(cam, d, a, b), radius |-> rad, cam |-> cam,
       near |-> range[1], far |-> range[2]] :
         cam \in ProbeCameras, range \in ProbeRanges, d \in SphereDepths,
         a \in SphereOffsets, b \in SphereOffsets, rad \in SphereRadii }

\* the largest max_t examined, in units of 1 / T_ONE
ProbeMaxT == 3

\* the triples <<max_x, max_y, max_z>> examined
ProbeTimes == (0 .. ProbeMaxT) \X (0 .. ProbeMaxT) \X (0 .. ProbeMaxT)

ProbeInputs ==
    {[op |-> "input", kind |-> "position", arg |-> p] : p \in ProbePositions}
        \cup {[op |-> "input", kind |-> "max_t", arg |-> t] : t \in ProbeTimes}
        \cup {[op |-> "input", kind |-> "eye", arg |-> pose] : pose \in Poses}
        \cup {[op |-> "input", kind |-> "sphere", arg |-> sph] : sph \in ProbeSpheres}

InitProbe == WorldInit /\ CullInit /\ run = run_init /\ probe \in ProbeInputs

\* VoxelHandler.get_voxel_id applied to a world coordinate
ProbeGetVoxelId ==
    /\ probe.op = "input" /\ probe.kind = "position"
    /\ probe' = [op |-> "get_voxel_id", arg |-> probe.arg,
                 out |-> get_voxel_id(voxels, probe.arg)]
    /\ UNCHANGED <<world_vars, cull_vars, run>>

\* VoxelHandler.ray_cast applied to an eye position and a view direction
ProbeRayCast ==
    /\ probe.op = "input" /\ probe.kind = "eye"
    /\ probe' = [op |-> "ray_cast", arg |-> probe.arg,
                 out |-> ray_cast(voxels, probe.arg[1], probe.arg[2])]
    /\ UNCHANGED <<world_vars, cull_vars, run>>

\* Frustum.is_on_frustum applied to a sphere and a camera
ProbeIsOnFrustum ==
    /\ probe.op = "input" /\ probe.kind = "sphere"
    /\ probe' = [op |-> "is_on_frustum", arg |-> probe.arg,
                 out |-> sphere_test(probe.arg.center, probe.arg.radius, probe.arg.cam,
                                     probe.arg.near, probe.arg.far)]
    /\ UNCHANGED <<world_vars, cull_vars, run>>

\* AdvancedFrustum.precise_frustum_test applied to a sphere's center, with the
\* planes that _update_frustum_planes computes for the camera
ProbePreciseFrustumTest ==
    /\ probe.op = "input" /\ probe.kind = "sphere"
    /\ probe' = [op |-> "precise_frustum_test", arg |-> probe.arg,
                 out |-> precise_frustum_test(probe.arg.center,
                             _update_frustum_planes(probe.arg.cam, probe.arg.near,
                                                    probe.arg.far))]
    /\ UNCHANGED <<world_vars, cull_vars, run>>

\* the advance step of ray_cast applied to the three max_t
ProbeAdvanceAxis ==
    /\ probe.op = "input" /\ probe.kind = "max_t"
    /\ probe' = [op |-> "advance_axis", arg |-> probe.arg,
                 out |-> advance_axis(probe.arg[1], probe.arg[2], probe.arg[3])]
    /\ UNCHANGED <<world_vars, cull_vars, run>>

NextProbe ==
    \/ ProbeGetVoxelId
    \/ ProbeAdvanceAxis
    \/ ProbeRayCast
    \/ ProbeIsOnFrustum
    \/ ProbePreciseFrustumTest

SpecProbe == InitProbe /\ [][NextProbe]_vars

(***************************************************************************)
(* VoxelHandler.ray_cast iteration by iteration: probe holds the locals of *)
(* the cast in flight.  The handler runs on the primary thread, so the     *)
(* edits come between two casts.                                           *)
(***************************************************************************)
\* the poses of the casts followed step by step: poses of the player, and view
\* directions with three, two and one zero components from eyes on and off the
\* cell boundaries
RayPoses ==
    { <<<<3, 7, 3>>, <<0, -3, 0>>>>,     \* above the ground, looking down
      <<<<3, 11, 3>>, <<0, 3, 0>>>>,     \* looking up and out of the world
      <<<<9, 1, 3>>, <<3, 0, 0>>>>,      \* inside the ground, looking along x
      <<<<3, 5, 3>>, <<2, -2, 1>>>>,     \* no zero component
      <<<<3, 7, 3>>, <<0, 0, 0>>>>,      \* no direction, inside a cell of air
      <<<<2, 6, 2>>, <<0, 0, 0>>>>,      \* no direction, on a cell corner in the air
      <<<<2, 2, 2>>, <<0, 0, 0>>>>,      \* no direction, on a cell corner in the ground
      <<<<2, 7, 4>>, <<0, -3, 0>>>>,     \* looking down from a cell edge
      <<<<5, 6, 3>>, <<-3, 0, 2>>>> }    \* level, on a cell boundary in y

\* a cast is in flight
InCast == probe.op = "ray_cast"

\* lines 112-131: the locals before the loop; voxel_id and voxel_normal are cleared
RayCastEnter(pose) ==
    /\ ~InCast
    /\ \E seg \in {segment(pose[2])} :
       \E dir \in {[i \in 1 .. 3 |-> Sign(seg[i])]} :
       \E deltas \in {[i \in 1 .. 3 |-> delta_t(dir[i], seg[i])]} :
          probe' = [op |-> "ray_cast", d |-> dir, delta |-> deltas,
                    cur |-> ivec3(pose[1]),
                    max |-> [i \in 1 .. 3 |-> max_t(dir[i], deltas[i], pose[1][i])],
                    step_dir |-> -1, n |-> 0]
    /\ player' = [position |-> pose[1], forward |-> pose[2]]
    /\ handler' = [handler EXCEPT !.voxel_id = 0, !.voxel_normal = <<0, 0, 0>>]
    /\ UNCHANGED <<voxels, is_empty, mesh, chunks_to_mesh, meshes_built,
                   mesh_building_complete, rebuilt, sched_built, last_op, ray, edits>>
    /\ UNCHANGED <<cull_vars, run>>

\* the loop condition of line 133
loop_condition(max) == ~(max[1] > T_ONE /\ max[2] > T_ONE /\ max[3] > T_ONE)

\* one iteration of the loop (lines 135-165): a hit returns True, otherwise the
\* axis with the smallest max_t is advanced
RayCastIterate ==
    /\ InCast
    /\ loop_condition(probe.max)
    /\ \E result \in {get_voxel_id(voxels, probe.cur)} :
       \E a \in {advance_axis(probe.max[1], probe.max[2], probe.max[3])} :
          IF result[1] # 0
          THEN /\ handler' = [handler EXCEPT
                                 !.voxel_id = result[1], !.voxel_index = result[2],
                                 !.voxel_local_pos = result[3], !.chunk = result[4],
                                 !.voxel_world_pos = probe.cur,
                                 !.voxel_normal = hit_normal(probe.step_dir, probe.d)]
               /\ probe' = [op |-> "returned", hit |-> TRUE, d |-> probe.d,
                            n |-> probe.n + 1]
               /\ last_op' = "update"
          ELSE /\ probe' = [probe EXCEPT
                               !.cur = [i \in 1 .. 3 |->
                                           IF i = a + 1 THEN probe.cur[i] + probe.d[i]
                                           ELSE probe.cur[i]],
                               !.max = [i \in 1 .. 3 |->
                                           IF i = a + 1 THEN probe.max[i] + probe.delta[i]
                                           ELSE probe.max[i]],
                               !.step_dir = a,
                               !.n = probe.n + 1]
               /\ UNCHANGED <<handler, last_op>>
    /\ UNCHANGED <<voxels, is_empty, mesh, chunks_to_mesh, meshes_built,
                   mesh_building_complete, player, rebuilt, sched_built, ray, edits>>
    /\ UNCHANGED <<cull_vars, run>>

\* the loop condition fails: return False (line 166)
RayCastExit ==
    /\ InCast
    /\ ~loop_condition(probe.max)
    /\ probe' = [op |-> "returned", hit |-> FALSE, d |-> probe.d, n |-> probe.n]
    /\ last_op' = "update"
    /\ UNCHANGED <<voxels, is_empty, mesh, chunks_to_mesh, meshes_built,
                   mesh_building_complete, handler, player, rebuilt, sched_built, ray,
                   edits>>
    /\ UNCHANGED <<cull_vars, run>>

NextRay ==
    \/ \E pose \in RayPoses : RayCastEnter(pose)
    \/ RayCastIterate
    \/ RayCastExit
    \/ ~InCast /\ SetVoxel /\ UNCHANGED run
    \/ ~InCast /\ SwitchMode /\ UNCHANGED run

SpecRay == Init /\ [][NextRay]_vars

\* the primary thread keeps executing the loop it is in
RayCastLoop == RayCastIterate \/ RayCastExit

SpecRayFair == SpecRay /\ WF_vars(RayCastLoop)

(***************************************************************************)
(* The frames of VoxelEngine.run on the primary thread: events and the     *)
(* world's update run while no cull_all_chunks call is in flight, and      *)
(* World.render hands the non-empty chunks to cull_all_chunks, whose       *)
(* workers are the only other threads.                                     *)
(***************************************************************************)
\* the primary thread is not inside cull_all_chunks
PrimaryFree == cull_pc = "idle"

NextFrame ==
    \/ PrimaryFree /\ Frame
    \/ PrimaryFree /\ SetVoxel /\ UNCHANGED run
    \/ PrimaryFree /\ SwitchMode /\ UNCHANGED run
    \/ CullSequential(candidates(is_empty)) /\ UNCHANGED <<world_vars, rest_vars>>
    \/ CullThreaded(candidates(is_empty)) /\ UNCHANGED <<world_vars, rest_vars>>
    \/ StartThread /\ UNCHANGED <<world_vars, rest_vars>>
    \/ \E i \in 1 .. num_threads : WorkerStep(i) /\ UNCHANGED <<world_vars, rest_vars>>
    \/ JoinThread /\ UNCHANGED <<world_vars, rest_vars>>
    \/ CullFinish /\ UNCHANGED <<world_vars, rest_vars>>
    \/ Return /\ UNCHANGED <<world_vars, rest_vars>>
    \/ toggle_feature("threading") /\ UNCHANGED <<world_vars, rest_vars>>

SpecFrame == Init /\ [][NextFrame]_vars

(***************************************************************************)
(* VoxelEngine.run: while self.is_running, a frame runs handle_events,     *)
(* update and render inside one try block; an exception of any of them     *)
(* goes to the except clause, which clears is_running; after the loop come *)
(* pg.quit() and sys.exit().  A phase that raises is taken to raise before *)
(* it changes the world.                                                   *)
(***************************************************************************)
\* the number of frames the model follows a session for
MaxFrames == 2

\* the events handle_events finds in the queue of a frame
Events == {"none", "set_voxel", "switch_mode", "quit"}

\* while self.is_running: enter the next frame, or leave the loop
LoopTest ==
    /\ run.pc = "while"
    /\ IF run.is_running
       THEN /\ run.frames < MaxFrames
            /\ run' = [run EXCEPT !.pc = "handle_events", !.frames = @ + 1,
                                  !.phases = <<>>]
       ELSE run' = [run EXCEPT !.pc = "quit"]
    /\ UNCHANGED <<world_vars, cull_vars, probe>>

\* VoxelEngine.handle_events: a quit event clears is_running, the other events
\* go to the player, whose handler edits the world
HandleEvents(event) ==
    /\ run.pc = "handle_events"
    /\ run' = [run EXCEPT !.pc = "update",
                          !.is_running = IF event = "quit" THEN FALSE ELSE @,
                          !.phases = Append(@, "handle_events")]
    /\ IF event = "set_voxel" THEN SetVoxel
       ELSE IF event = "switch_mode" THEN SwitchMode
       ELSE UNCHANGED <<world_vars, cull_vars, probe>>

\* VoxelEngine.update: the scene's update reaches World.update
UpdatePhase ==
    /\ run.pc = "update"
    /\ run' = [run EXCEPT !.pc = "render", !.phases = Append(@, "update")]
    /\ \E pose \in FairPoses : Update(pose)

\* VoxelEngine.render: World.render calls cull_all_chunks with the non-empty chunks
RenderCall ==
    /\ run.pc = "render"
    /\ run' = [run EXCEPT !.pc = "culling"]
    /\ (CullSequential(candidates(is_empty)) \/ CullThreaded(candidates(is_empty)))
    /\ UNCHANGED <<world_vars, probe>>

\* cull_all_chunks returns and the rest of render draws the visible chunks
RenderReturn ==
    /\ run.pc = "culling"
    /\ run' = [run EXCEPT !.pc = "while", !.phases = Append(@, "render")]
    /\ Return
    /\ UNCHANGED <<world_vars, probe>>

\* a phase raises an exception: control leaves the try block
Raise(phase) ==
    /\ run.pc = phase
    /\ run' = [run EXCEPT !.pc = "except", !.raised = phase]
    /\ UNCHANGED <<world_vars, cull_vars, probe>>

\* an except clause that lets the loop go on
Except_continue ==
    /\ run.pc = "except"
    /\ run' = [run EXCEPT !.pc = "while"]
    /\ UNCHANGED <<world_vars, cull_vars, probe>>

\* except Exception: print the error, self.is_running = False
Except ==
    /\ run.pc = "except"
    /\ run' = [run EXCEPT !.pc = "while", !.is_running = FALSE]
    /\ UNCHANGED <<world_vars, cull_vars, probe>>

\* pg.quit()
Quit ==
    /\ run.pc = "quit"
    /\ run' = [run EXCEPT !.pc = "exit", !.quit = TRUE]
    /\ UNCHANGED <<world_vars, cull_vars, probe>>

\* sys.exit()
Exit ==
    /\ run.pc = "exit"
    /\ run' = [run EXCEPT !.pc = "exited"]
    /\ UNCHANGED <<world_vars, cull_vars, probe>>

NextRun ==
    \/ LoopTest
    \/ \E event \in Events : HandleEvents(event)
    \/ UpdatePhase
    \/ RenderCall
    \/ StartThread /\ UNCHANGED <<world_vars, rest_vars>>
    \/ \E i \in 1 .. num_threads : WorkerStep(i) /\ UNCHANGED <<world_vars, rest_vars>>
    \/ JoinThread /\ UNCHANGED <<world_vars, rest_vars>>
    \/ CullFinish /\ UNCHANGED <<world_vars, rest_vars>>
    \/ RenderReturn
    \/ \E phase \in {"handle_events", "update", "render"} : Raise(phase)
    \/ Except
    \/ Quit
    \/ Exit

SpecRun == Init /\ [][NextRun]_vars

\* the interpreter goes on executing the primary thread: the except clause, the
\* loop test, pg.quit() and sys.exit() are not postponed forever
Shutdown == Except \/ LoopTest \/ Quit \/ Exit

SpecRunFair == SpecRun /\ WF_vars(Shutdown)

(***************************************************************************)
(* Properties of MasterCullingSystem.cull_all_chunks.                      *)
(***************************************************************************)
\* the occlusion pass of the call in flight runs (line 430)
occlusion_runs == enable.occlusion /\ call.moved

\* a chunk is in the list
InList(chunks, c) == \E k \in 1 .. Len(chunks) : chunks[k] = c

\* C1: at the return of cull_all_chunks the visible list holds, once each, exactly
\* the input chunks that are within the maximum render distance (when distance
\* culling is enabled), pass the sphere frustum test and are not occluded (when the
\* occlusion pass runs), and nothing else; the frustum test was evaluated exactly
\* on the chunks that survived the distance pass.
C1_VisibleExact ==
    cull_pc = "return" =>
        \A c \in ChunkIds :
            LET in_distance == enable.distance => should_render(c, camera.position)
                shown == /\ InList(call.chunks, c)
                         /\ in_distance
                         /\ is_on_frustum(c, camera)
                         /\ occlusion_runs => ~is_occluded(c, camera, occluders, TRUE)
            IN /\ Count(visible, c) = (IF shown THEN 1 ELSE 0)
               /\ tested[c] = (IF InList(call.chunks, c) /\ in_distance THEN 1 ELSE 0)

\* C1: a call returns whose distance, frustum and occlusion passes each rejected a chunk
C1_Witness ==
    /\ cull_pc = "return"
    /\ enable.distance /\ occlusion_runs
    /\ stats.distance_culled > 0
    /\ Len(call.frustum_passed) < Len(call.distance_passed)
    /\ stats.occlusion_culled > 0
    /\ Len(visible) > 0

\* C2: when the frustum pass went through cull_chunks_threaded, whatever the
\* interleaving of the workers, its result holds the same chunks as the sequential
\* frustum pass over the same list: every chunk has the verdict of is_on_frustum
\* and every accepted chunk appears exactly once.
C2_ThreadedEqualsSequential ==
    (cull_pc = "return" /\ call.threaded) =>
        \A c \in ChunkIds :
            /\ Count(call.frustum_passed, c)
                   = Count(frustum_filter(call.distance_passed, camera), c)
            /\ Count(call.frustum_passed, c)
                   = (IF InList(call.distance_passed, c) /\ is_on_frustum(c, camera)
                      THEN 1 ELSE 0)

\* C2: a threaded frustum pass over groups of unequal length returns, having
\* accepted some chunks and rejected others
C2_Witness ==
    /\ cull_pc = "return" /\ call.threaded
    /\ Len(chunk_groups) = num_threads
    /\ Len(chunk_groups[num_threads]) > Len(chunk_groups[1])
    /\ Len(call.frustum_passed) > 0
    /\ Len(call.frustum_passed) < Len(call.distance_passed)

(***************************************************************************)
(* Properties of VoxelHandler.ray_cast, stated on the last cast.           *)
(***************************************************************************)
\* the step of the last cast on each axis (dx, dy, dz)
ray_step == [i \in 1 .. 3 |-> Sign(player.forward[i])]

\* the voxel id of a cell of the world, 0 outside the world
CellId(cell) == get_voxel_id(voxels, cell)[1]

\* every iteration after the first moved one axis by that axis's step
PathSteps ==
    \A k \in 2 .. Len(ray.trace) :
        LET a == ray.trace[k].step_dir + 1
        IN /\ a \in 1 .. 3
           /\ ray.trace[k].cell =
                  [i \in 1 .. 3 |-> IF i = a THEN ray.trace[k - 1].cell[i] + ray_step[i]
                                     ELSE ray.trace[k - 1].cell[i]]

\* no cell was sampled after the segment was exhausted
SampledBeforeExhaustion ==
    \A k \in 1 .. Len(ray.trace) :
        \E i \in 1 .. 3 : ray.trace[k].max[i] <= T_ONE

\* a hit is reported exactly when a sampled cell is solid, and it is the first one
HitIsFirstSolid ==
    /\ ray.hit <=> \E k \in 1 .. Len(ray.trace) : CellId(ray.trace[k].cell) # 0
    /\ ray.hit =>
          LET n == Len(ray.trace)
              found == get_voxel_id(voxels, ray.trace[n].cell)
          IN /\ \A k \in 1 .. n - 1 : CellId(ray.trace[k].cell) = 0
             /\ found[1] # 0
             /\ handler.voxel_id = found[1]
             /\ handler.voxel_index = found[2]
             /\ handler.voxel_local_pos = found[3]
             /\ handler.chunk = found[4]
             /\ handler.voxel_world_pos = ray.trace[n].cell
    /\ ~ray.hit => handler.voxel_id = 0

\* a cell outside the world is empty and does not end the traversal
OutsideIsEmpty ==
    \A k \in 1 .. Len(ray.trace) :
        get_chunk_index(ray.trace[k].cell) = -1 =>
            CellId(ray.trace[k].cell) = 0 /\ (ray.hit => k < Len(ray.trace))

\* the first cell sampled is the cell the eye lies in
StartsAtEyeCell ==
    Len(ray.trace) > 0 /\ ray.trace[1].cell = floor3(player.position)

\* C3, without its first clause: the path of ray_cast changes one axis by that
\* axis's step per iteration, the hit is the first solid cell sampled, and cells
\* outside the world are empty.
RayCastPathFromStart ==
    last_op = "update" =>
        PathSteps /\ SampledBeforeExhaustion /\ HitIsFirstSolid /\ OutsideIsEmpty

\* C3: ray_cast visits a path of cells that starts at the eye's cell and changes
\* one axis coordinate by that axis's step per iteration; it reports a hit exactly
\* when a cell visited before the segment is exhausted is solid, and the hit is the
\* first such cell; cells outside the world are empty and do not stop the ray.
C3_RayCastPath ==
    last_op = "update" =>
        /\ StartsAtEyeCell
        /\ PathSteps /\ SampledBeforeExhaustion /\ HitIsFirstSolid /\ OutsideIsEmpty

\* C3: a cast from half a cell outside the world reports a hit in its first cell
C3_Witness ==
    /\ last_op = "update"
    /\ player.position[1] < 0 /\ player.position[1] % 2 = 1
    /\ ray.hit /\ Len(ray.trace) = 1

\* a cast that samples cells outside the world and then hits a voxel
OutsideThenHit ==
    /\ last_op = "update" /\ ray.hit
    /\ get_chunk_index(ray.trace[1].cell) = -1

\* C4: a hit reached after at least one traversal step carries a normal with
\* exactly one non-zero component: on the axis advanced by the preceding step it is
\* minus that axis's step, on the other two axes it is 0.
C4_HitNormal ==
    (last_op = "update" /\ ray.hit /\ Len(ray.trace) >= 2) =>
        LET a == ray.trace[Len(ray.trace)].step_dir + 1
        IN /\ a \in 1 .. 3
           /\ ray_step[a] # 0
           /\ handler.voxel_normal = [i \in 1 .. 3 |-> IF i = a THEN -ray_step[i] ELSE 0]

\* C4: a hit after two steps, the first of them on an axis the ray does not move along
C4_Witness ==
    /\ last_op = "update" /\ ray.hit
    /\ Len(ray.trace) >= 3
    /\ ray.trace[1].cell = ray.trace[2].cell
    /\ handler.voxel_normal = <<0, 1, 0>>

(***************************************************************************)
(* Properties of the voxel edits.                                          *)
(***************************************************************************)
\* the chunks of a list of build_mesh calls
Built(cs) == {cs[k] : k \in 1 .. Len(cs)}

\* a cell lies inside the world bounds
InWorld(cell) ==
    /\ 0 <= cell[1] /\ cell[1] < WORLD_W * CHUNK_SIZE
    /\ 0 <= cell[2] /\ cell[2] < WORLD_H * CHUNK_SIZE
    /\ 0 <= cell[3] /\ cell[3] < WORLD_D * CHUNK_SIZE

\* the chunk at a grid position, or no chunk outside the grid
ChunkAt(cx, cy, cz) ==
    IF 0 <= cx /\ cx < WORLD_W /\ 0 <= cy /\ cy < WORLD_H /\ 0 <= cz /\ cz < WORLD_D
    THEN {build_chunks_index(cx, cy, cz)} ELSE {}

\* the neighbor chunks across the chunk faces the hit voxel lies on
FaceNeighbors(h) ==
    LET c == chunk_position(h.chunk)
        l == h.voxel_local_pos
        side(axis) == IF l[axis] = 0 THEN -1
                      ELSE IF l[axis] = CHUNK_SIZE - 1 THEN 1 ELSE 0
    IN UNION { IF side(axis) = 0 THEN {}
               ELSE ChunkAt(c[1] + (IF axis = 1 THEN side(axis) ELSE 0),
                            c[2] + (IF axis = 2 THEN side(axis) ELSE 0),
                            c[3] + (IF axis = 3 THEN side(axis) ELSE 0)) : axis \in 1 .. 3 }

\* the handler holds a hit
CurrentHit == truthy(handler.voxel_id) /\ handler.chunk # None

\* C5: with a current hit, remove_voxel sets the hit voxel to 0 and changes no
\* other voxel; it rebuilds the hit chunk and, per axis, the neighbor chunk below
\* when the hit's local coordinate is 0 and above when it is S-1, each once; a
\* neighbor outside the world is dropped and no other chunk is rebuilt.
C5_RemoveVoxelFrame ==
    [][(last_op' = "remove_voxel" /\ CurrentHit) =>
          /\ voxels' = [c \in ChunkIds |-> [i \in VoxelIds |->
                           IF c = handler.chunk /\ i = handler.voxel_index THEN 0
                           ELSE voxels[c][i]]]
          /\ Built(rebuilt') = {handler.chunk} \cup FaceNeighbors(handler)
          /\ Len(rebuilt') = Cardinality(Built(rebuilt'))
          /\ rebuilt'[1] = handler.chunk]_vars

\* C5: a removal that rebuilt the hit chunk and its neighbors across three faces
C5_Witness ==
    /\ last_op = "remove_voxel"
    /\ Len(rebuilt) = 4
    /\ voxels[handler.chunk][handler.voxel_index] = 0

\* a removal at the corner of the world: the neighbors outside the world are dropped
RemoveAtWorldCorner ==
    /\ last_op = "remove_voxel" /\ CurrentHit
    /\ handler.voxel_local_pos[1] = 0 /\ handler.voxel_local_pos[3] = 0
    /\ rebuilt = <<handler.chunk>>

\* the cell add_voxel targets: the hit's world position plus the face normal
AddTarget == [i \in 1 .. 3 |-> handler.voxel_world_pos[i] + handler.voxel_normal[i]]

\* C6: add_voxel never overwrites a non-zero voxel; with a current hit it writes
\* new_voxel_id into the cell hit position + normal only if that cell is inside the
\* world and holds 0, and then exactly that voxel changes, its chunk is rebuilt and
\* its chunk's is_empty flag is false; otherwise no voxel changes, no mesh is rebuilt.
C6_AddVoxelNeverOverwrites ==
    [][last_op' = "add_voxel" =>
          /\ \A c \in ChunkIds : \A i \in VoxelIds :
                 voxels[c][i] # 0 => voxels'[c][i] = voxels[c][i]
          /\ CurrentHit =>
                IF InWorld(AddTarget) /\ CellId(AddTarget) = 0
                THEN LET found == get_voxel_id(voxels, AddTarget)
                     IN /\ voxels' = [c \in ChunkIds |-> [i \in VoxelIds |->
                                         IF c = found[4] /\ i = found[2]
                                         THEN handler.new_voxel_id ELSE voxels[c][i]]]
                        /\ rebuilt' = <<found[4]>>
                        /\ ~is_empty'[found[4]]
                        /\ \A c \in ChunkIds \ {found[4]} : is_empty'[c] = is_empty[c]
                ELSE /\ voxels' = voxels
                     /\ rebuilt' = <<>>
                     /\ is_empty' = is_empty]_vars

\* C6: an add_voxel wrote the new voxel into a chunk that was built empty
C6_Witness ==
    /\ last_op = "add_voxel"
    /\ Len(rebuilt) = 1
    /\ ~AnyVoxel(build_voxels("step", rebuilt[1]))
    /\ ~is_empty[rebuilt[1]]
    /\ CellId(AddTarget) = handler.new_voxel_id

\* an add_voxel whose target cell is occupied
AddOnOccupied ==
    /\ last_op = "add_voxel" /\ CurrentHit
    /\ rebuilt = <<>>
    /\ CellId(AddTarget) # 0

\* C7: after a ray_cast that ended in a miss, whatever earlier casts left in the
\* handler, add_voxel and remove_voxel (set_voxel in either mode) change no voxel,
\* rebuild no mesh and change no is_empty flag.
C7_NoOpAfterMiss ==
    [][(ray.trace # <<>> /\ ~ray.hit /\ last_op' \in {"add_voxel", "remove_voxel"}) =>
          /\ voxels' = voxels
          /\ rebuilt' = <<>>
          /\ mesh' = mesh
          /\ is_empty' = is_empty]_vars

\* C7: a remove_voxel after a miss, with the chunk and index of an earlier hit
\* still in the handler
C7_Witness ==
    /\ last_op = "remove_voxel"
    /\ ray.trace # <<>> /\ ~ray.hit
    /\ handler.chunk # None /\ handler.voxel_index # None
    /\ voxels[handler.chunk][handler.voxel_index] # 0

\* an add_voxel after a miss, with the fields of an earlier hit in the handler
AddAfterMiss ==
    /\ last_op = "add_voxel"
    /\ ray.trace # <<>> /\ ~ray.hit
    /\ handler.chunk # None

(***************************************************************************)
(* Properties of the progressive mesh scheduler (World.update).            *)
(***************************************************************************)
\* C8: while the scheduler is not complete, an update() builds the first
\* min(meshes_per_frame, queue length) chunks of the worklist in queue order,
\* removes exactly those from the worklist and raises meshes_built by that number;
\* no update() builds more than meshes_per_frame chunks.
C8_QuotaPerFrame ==
    [][last_op' = "update" =>
          /\ Len(rebuilt') <= meshes_per_frame
          /\ ~mesh_building_complete =>
                LET n == Min(meshes_per_frame, Len(chunks_to_mesh))
                IN /\ rebuilt' = SubSeq(chunks_to_mesh, 1, n)
                   /\ chunks_to_mesh' = SubSeq(chunks_to_mesh, n + 1, Len(chunks_to_mesh))
                   /\ meshes_built' = meshes_built + n]_vars

\* C8: an update() that built a full quota and left chunks on the worklist
C8_Witness ==
    /\ last_op = "update"
    /\ Len(rebuilt) = meshes_per_frame
    /\ chunks_to_mesh # <<>>
    /\ ~mesh_building_complete
    /\ meshes_built = meshes_per_frame

\* the complete state of the scheduler
Complete ==
    /\ chunks_to_mesh = <<>>
    /\ mesh_building_complete
    /\ meshes_built = WORLD_VOL
    /\ \A c \in ChunkIds : sched_built[c] = 1

\* C9: repeated update() calls eventually reach the complete state and stay in it:
\* the worklist is empty, mesh_building_complete is true, meshes_built is the
\* number of chunks queued at construction and the scheduler has built each of
\* them exactly once; an update() in the complete state builds nothing.
C9_EventuallyComplete ==
    /\ <>[]Complete
    /\ [][(Complete /\ last_op' = "update") => (rebuilt' = <<>> /\ Complete')]_vars

\* C9: an update() in the complete state, which built nothing
C9_Witness ==
    /\ Complete
    /\ last_op = "update"
    /\ rebuilt = <<>>

\* a voxel edit that rebuilt a mesh has just happened
EditDone == last_op \in {"add_voxel", "remove_voxel"} /\ rebuilt # <<>>

LocalOf(i) == <<i % CHUNK_SIZE, i \div CHUNK_AREA, (i \div CHUNK_SIZE) % CHUNK_SIZE>>

\* the in-bounds chunks across the chunk faces that the voxel l of chunk c lies on
NeighborsAcross(c, l) ==
    LET p == chunk_position(c)
        side(axis) == IF l[axis] = 0 THEN -1
                      ELSE IF l[axis] = CHUNK_SIZE - 1 THEN 1 ELSE 0
    IN UNION { IF side(axis) = 0 THEN {}
               ELSE ChunkAt(p[1] + (IF axis = 1 THEN side(axis) ELSE 0),
                            p[2] + (IF axis = 2 THEN side(axis) ELSE 0),
                            p[3] + (IF axis = 3 THEN side(axis) ELSE 0)) : axis \in 1 .. 3 }

\* C11: every voxel edit rebuilds the edited chunk and every in-bounds neighbor
\* chunk across a chunk face the changed voxel lies on (local coordinate 0 or
\* S-1), for add_voxel as for remove_voxel, so that no chunk keeps geometry built
\* before a voxel on its shared boundary changed.
C11_EditRebuildsNeighbors ==
    [][last_op' \in {"add_voxel", "remove_voxel"} =>
          \A c \in ChunkIds : \A i \in VoxelIds :
              voxels'[c][i] # voxels[c][i] =>
                  ({c} \cup NeighborsAcross(c, LocalOf(i))) \subseteq Built(rebuilt')]_vars

\* C11: an add_voxel wrote a voxel on a chunk face with a neighbor chunk behind it
\* and rebuilt the target chunk only
C11_Witness ==
    /\ last_op = "add_voxel"
    /\ Len(rebuilt) = 1
    /\ CellId(AddTarget) = handler.new_voxel_id
    /\ NeighborsAcross(rebuilt[1], get_voxel_id(voxels, AddTarget)[3]) # {}

(***************************************************************************)
(* Properties of the voxel addressing.                                     *)
(***************************************************************************)
\* C12: for every integer world coordinate inside the world bounds,
\* get_voxel_id returns the chunk that build_chunks built at the grid position c
\* and a local coordinate l with 0 <= l < CHUNK_SIZE and c * CHUNK_SIZE + l equal
\* to the coordinate on every axis; the voxel index is lx + S * lz + S * S * ly and
\* the id is the one stored there.
C12_AddressSplit ==
    (probe.op = "get_voxel_id" /\ InWorld(probe.arg)) =>
        /\ probe.out[4] \in ChunkIds
        /\ LET c == chunk_position(probe.out[4])
               l == probe.out[3]
           IN /\ \A a \in 1 .. 3 :
                    /\ 0 <= l[a] /\ l[a] < CHUNK_SIZE
                    /\ c[a] * CHUNK_SIZE + l[a] = probe.arg[a]
              /\ probe.out[2] = l[1] + CHUNK_SIZE * l[3] + CHUNK_SIZE * CHUNK_SIZE * l[2]
              /\ probe.out[1] = voxels[probe.out[4]][probe.out[2]]

\* a solid voxel found in a chunk off the x axis of the grid, off the chunk's
\* y axis
C12_Witness ==
    /\ probe.op = "get_voxel_id"
    /\ InWorld(probe.arg)
    /\ probe.out[1] # 0
    /\ chunk_position(probe.out[4])[2] = 1
    /\ chunk_position(probe.out[4])[3] = 1
    /\ probe.out[3][1] > 0
    /\ probe.out[3][3] > 0

\* a coordinate with a negative component
Negative(p) == \E a \in 1 .. 3 : p[a] < 0

\* C13: voxel addressing floors negative coordinates: a coordinate with a
\* negative component lies in a chunk coordinate below 0 and reads as empty,
\* outside the world; and ray_cast starts in the floor of the eye position, so an
\* eye with a negative coordinate never has an in-bounds voxel sampled for it.
C13_FloorAddressing ==
    /\ (probe.op = "get_voxel_id" /\ Negative(probe.arg)) =>
           probe.out = <<0, 0, <<0, 0, 0>>, None>>
    /\ probe.op = "ray_cast" =>
           /\ probe.out.trace[1].cell = floor3(probe.arg[1])
           /\ Negative(probe.arg[1]) => ~InWorld(probe.out.trace[1].cell)

\* C13: a cast from an eye half a cell below the world's x range
C13_Witness ==
    /\ probe.op = "ray_cast"
    /\ probe.arg[1][1] = -1
    /\ floor3(probe.arg[1])[1] = -1

\* C13, the part that holds: get_voxel_id floors negative coordinates
C13_GetVoxelIdFloors ==
    (probe.op = "get_voxel_id" /\ Negative(probe.arg)) =>
        probe.out = <<0, 0, <<0, 0, 0>>, None>>

(***************************************************************************)
(* Properties of the frustum tests.                                        *)
(***************************************************************************)
\* the depth of the examined sphere along the camera's forward axis
ProbeDepth == Dot(Sub(probe.arg.center, probe.arg.cam.position), probe.arg.cam.forward)

\* the examined sphere is centered on the camera's forward axis
OnAxis ==
    /\ Dot(Sub(probe.arg.center, probe.arg.cam.position), probe.arg.cam.right) = 0
    /\ Dot(Sub(probe.arg.center, probe.arg.cam.position), probe.arg.cam.up) = 0

\* the camera at the origin that looks down +z, with near 0.1 and far 100
ScenarioCamera ==
    /\ probe.arg.cam.position = <<0, 0, 0>>
    /\ probe.arg.cam.forward = <<0, 0, 1>>
    /\ probe.arg.near = 1
    /\ probe.arg.far = 1000

\* C14: is_on_frustum rejects a sphere fully beyond the far plane and a sphere
\* fully behind the near plane, also when it is laterally centered; it accepts
\* every sphere centered on the forward axis with near <= depth <= far and every
\* sphere centered at the camera position with radius >= near. With the camera at
\* the origin looking down +z, far 100 and near 0.1, the sphere at (0, 0, 50) of
\* radius 8 is accepted and the sphere at (0, 0, -10) of radius 5 is rejected.
C14_NearFarMonotone ==
    probe.op = "is_on_frustum" =>
        /\ ProbeDepth - probe.arg.radius > probe.arg.far => ~probe.out
        /\ ProbeDepth + probe.arg.radius < probe.arg.near => ~probe.out
        /\ (OnAxis /\ probe.arg.near <= ProbeDepth /\ ProbeDepth <= probe.arg.far) =>
               probe.out
        /\ (probe.arg.center = probe.arg.cam.position
                /\ probe.arg.radius >= probe.arg.near) => probe.out
        /\ (ScenarioCamera /\ probe.arg.center = <<0, 0, 500>> /\ probe.arg.radius = 80) =>
               probe.out
        /\ (ScenarioCamera /\ probe.arg.center = <<0, 0, -100>> /\ probe.arg.radius = 50) =>
               ~probe.out

\* C14: a laterally centered sphere fully beyond the far plane of the settings
\* was rejected
C14_Witness ==
    /\ probe.op = "is_on_frustum"
    /\ OnAxis
    /\ probe.arg.far = FAR
    /\ ProbeDepth - probe.arg.radius > FAR
    /\ ~probe.out

\* C14: the sphere at (0, 0, 50) of radius 8 was accepted by the scenario's camera
C14_ScenarioAccepted ==
    /\ probe.op = "is_on_frustum"
    /\ ScenarioCamera /\ probe.arg.center = <<0, 0, 500>> /\ probe.arg.radius = 80
    /\ probe.out

\* C14: the sphere at (0, 0, -10) of radius 5 was rejected by the scenario's camera
C14_ScenarioRejected ==
    /\ probe.op = "is_on_frustum"
    /\ ScenarioCamera /\ probe.arg.center = <<0, 0, -100>> /\ probe.arg.radius = 50
    /\ ~probe.out

\* the examined sphere's offsets to the right of and above the view axis
ProbeRight == Dot(Sub(probe.arg.center, probe.arg.cam.position), probe.arg.cam.right)
ProbeUp == Dot(Sub(probe.arg.center, probe.arg.cam.position), probe.arg.cam.up)

\* the examined sphere has the radius that precise_frustum_test assumes and its
\* center is at least two radii away from each of the six planes that bound the
\* view volume (near, far, and the side planes at the half angles)
FarFromPlanes ==
    LET clear == 2 * CHUNK_SPHERE_RADIUS
    IN /\ probe.arg.radius = CHUNK_SPHERE_RADIUS
       /\ Abs(ProbeDepth - probe.arg.near) >= clear
       /\ Abs(probe.arg.far - ProbeDepth) >= clear
       /\ Abs(ProbeDepth * tan_x[1] - Abs(ProbeRight) * tan_x[2]) >= clear * sec_x[1]
       /\ Abs(ProbeDepth * tan_y[1] - Abs(ProbeUp) * tan_y[2]) >= clear * sec_y[1]

\* every plane of the examined camera reports the sphere fully inside
AllPlanesInside ==
    LET planes == _update_frustum_planes(probe.arg.cam, probe.arg.near, probe.arg.far)
    IN \A k \in 1 .. 6 :
          sphere_vs_plane_distance(probe.arg.center, planes[k])
              >= CHUNK_SPHERE_RADIUS * planes[k].len

\* C15: for an orthonormal camera and a sphere far from every frustum boundary,
\* precise_frustum_test with the planes of _update_frustum_planes and
\* is_on_frustum agree on outside against not outside; a sphere on the view axis
\* between near and far and far from all six planes is INSIDE, never OUTSIDE; and
\* the result is INSIDE only if all six planes report the sphere fully inside.
C15_PlaneTestConsistent ==
    probe.op = "precise_frustum_test" =>
        /\ FarFromPlanes =>
               (probe.out = "OUTSIDE"
                   <=> ~sphere_test(probe.arg.center, probe.arg.radius, probe.arg.cam,
                                    probe.arg.near, probe.arg.far))
        /\ (FarFromPlanes /\ OnAxis
                /\ probe.arg.near < ProbeDepth /\ ProbeDepth < probe.arg.far) =>
               probe.out = "INSIDE"
        /\ probe.out = "INSIDE" => AllPlanesInside

\* C15: a sphere on the view axis between near and far, far from all six planes,
\* was tested against the planes
C15_Witness ==
    /\ probe.op = "precise_frustum_test"
    /\ FarFromPlanes /\ OnAxis
    /\ probe.arg.near < ProbeDepth /\ ProbeDepth < probe.arg.far

\* C15, the part that holds: INSIDE only if all six planes report fully inside
C15_InsideOnlyIfAllInside ==
    (probe.op = "precise_frustum_test" /\ probe.out = "INSIDE") => AllPlanesInside

\* the six-plane test never reports INSIDE
C15_NeverInside ==
    probe.op = "precise_frustum_test" => probe.out # "INSIDE"

(***************************************************************************)
(* Properties of the statistics and of the passes of cull_all_chunks.      *)
(***************************************************************************)
\* what a caller that kept the statistics of an earlier call reads from them:
\* cull_all_chunks returns the CullStats object of the frustum culler itself
held_stats == stats

\* the counters were reset when the call started and total_tested is the number
\* of chunks passed in
ResetAndTotal ==
    /\ stats.total_tested = Len(call.chunks)
    /\ stats.distance_culled = Len(call.chunks) - Len(call.distance_passed)
    /\ stats.frustum_culled <= Len(call.distance_passed) - Len(call.frustum_passed)
    /\ stats.occlusion_culled = Len(call.frustum_passed) - Len(visible)
    /\ stats.temporal_skipped <= Len(call.chunks) \div 10

\* C16: the statistics returned by cull_all_chunks are a snapshot: the counters
\* are reset at the start of the call, total_tested is the number of chunks
\* passed in, and the statistics a caller received from one call still show
\* that call's counts after a later call.
C16_StatsSnapshot ==
    cull_pc = "return" =>
        /\ ResetAndTotal
        /\ culls >= 2 => held_stats = received

\* C16: a second call has returned
C16_Witness == cull_pc = "return" /\ culls = 2 /\ received.total_tested > 0

\* C16, the part that holds: reset at the start, total_tested as passed in
C16_ResetAndTotal == cull_pc = "return" => ResetAndTotal

\* the list the distance pass and the frustum pass leave of the call's chunks
FrustumSurvivors ==
    frustum_filter(distance_pass(call.chunks, camera, enable), camera)

\* the passes of a returned call obey the occlusion gate
OcclusionGate ==
    cull_pc = "return" =>
        /\ ~enable.temporal => call.moved
        /\ Len(visible) < Len(call.frustum_passed) => (enable.occlusion /\ call.moved)
        /\ ~(enable.occlusion /\ call.moved) =>
               (visible = call.frustum_passed /\ stats.occlusion_culled = 0)
        /\ ~call.moved =>
               /\ visible = FrustumSurvivors
               /\ tested = tested_once(distance_pass(call.chunks, camera, enable))
               /\ stats.distance_culled
                      = Len(call.chunks) - Len(distance_pass(call.chunks, camera, enable))
               /\ stats.temporal_skipped = Len(call.chunks) \div 10
        /\ call.moved => stats.temporal_skipped = 0

\* C17: the occlusion pass is off by default and drops chunks only when occlusion
\* is enabled and the camera is not stable (with temporal coherence disabled the
\* camera always counts as not stable); otherwise the visible list is the list
\* that survived the frustum pass and occlusion_culled is 0. A stable camera
\* removes no chunk and skips no distance or frustum test: it only sets
\* temporal_skipped.
C17_OcclusionGate == ~enable.occlusion /\ []OcclusionGate

\* C17: a call returns with occlusion enabled and a stable camera, and its visible
\* list keeps a chunk that the occlusion pass would have dropped
C17_Witness ==
    /\ cull_pc = "return"
    /\ enable.occlusion /\ enable.temporal /\ ~call.moved
    /\ \E k \in 1 .. Len(visible) : is_occluded(visible[k], camera, occluders, TRUE)

(***************************************************************************)
(* Properties of repeated edits.                                           *)
(***************************************************************************)
\* C18: remove_voxel called twice on the same hit leaves the voxel arrays as
\* they were after the first call; add_voxel called twice on the same hit leaves
\* the voxel arrays as they were after the first call: the second add finds the
\* target the first one wrote occupied, writes nothing and rebuilds nothing.
C18_EditsIdempotent ==
    [][/\ (last_op = "remove_voxel" /\ last_op' = "remove_voxel") => voxels' = voxels
       /\ (last_op = "add_voxel" /\ last_op' = "add_voxel") =>
              /\ voxels' = voxels
              /\ rebuilt' = <<>>
              /\ is_empty' = is_empty
              /\ rebuilt # <<>> => CellId(AddTarget) # 0]_vars

\* C18: a second add_voxel on the same hit found the cell occupied that the
\* terrain had left empty and the first add_voxel wrote
C18_Witness ==
    /\ last_op = "add_voxel" /\ CurrentHit
    /\ edits = 2
    /\ rebuilt = <<>>
    /\ InWorld(AddTarget)
    /\ CellId(AddTarget) = handler.new_voxel_id
    /\ LET found == get_voxel_id(voxels, AddTarget)
       IN build_voxels("step", found[4])[found[2]] = 0

\* C18: a second remove_voxel on the same hit, the voxel being empty already
C18_SecondRemove ==
    /\ last_op = "remove_voxel" /\ CurrentHit
    /\ edits = 2
    /\ rebuilt # <<>>
    /\ voxels[handler.chunk][handler.voxel_index] = 0
    /\ \A c \in ChunkIds : \A i \in VoxelIds :
           voxels[c][i] # build_voxels("step", c)[i] =>
               (c = handler.chunk /\ i = handler.voxel_index)
    /\ handler.interaction_mode = 0

(***************************************************************************)
(* Properties of the fork and join of the threaded frustum pass.           *)
(***************************************************************************)
\* a culling worker is alive: started and not yet finished
WorkerAlive == \E i \in 1 .. Len(threads) : threads[i] = "running"

\* no worker is running once cull_all_chunks is about to return or has returned
NoWorkerAfterReturn == cull_pc \in {"return", "idle"} => ~WorkerAlive

\* a step in which worker i handled a chunk appends at most to results[i] and
\* leaves every other result list, the statistics and the world alone
WorkerWritesOwnList ==
    \A i \in 1 .. Len(thread_pos) :
        (Len(thread_pos') = Len(thread_pos) /\ thread_pos'[i] # thread_pos[i]) =>
            /\ \A j \in 1 .. Len(results) : j # i => results'[j] = results[j]
            /\ \E tail \in {<<>>, <<chunk_groups[i][thread_pos[i] + 1]>>} :
                   results'[i] = results[i] \o tail
            /\ UNCHANGED <<stats, visible, world_vars>>

\* the primary thread takes over the result lists when every worker is done
MergeAfterJoin ==
    (cull_pc = "join" /\ cull_pc' = "return") =>
        /\ \A i \in 1 .. Len(threads) : threads[i] = "done"
        /\ call'.frustum_passed = extend_all(results)

\* a mesh build, a voxel edit or a ray cast happens while no worker is alive
WorldStepsAlone ==
    (last_op' # last_op \/ voxels' # voxels \/ mesh' # mesh \/ ray' # ray
        \/ rebuilt' # rebuilt \/ handler' # handler \/ edits' # edits
        \/ meshes_built' # meshes_built) => (~WorkerAlive /\ threads = <<>>)

\* C19: the threaded frustum pass is a synchronous fork and join: each worker
\* appends only to its own result list, the primary thread reads the result lists
\* only after joining every worker, and no worker is running when cull_all_chunks
\* returns; so no mesh build, voxel edit or ray cast runs while a culling worker
\* is alive.
C19_ForkJoin ==
    []NoWorkerAfterReturn /\ [][WorkerWritesOwnList /\ MergeAfterJoin /\ WorldStepsAlone]_vars

\* C19: after a voxel was removed, the primary thread waits in the join loop
\* while one worker is done and another is still running
C19_Witness ==
    /\ cull_pc = "join"
    /\ last_op = "remove_voxel"
    /\ \E i \in 1 .. Len(threads) : threads[i] = "done"
    /\ WorkerAlive

(***************************************************************************)
(* Properties of the main loop.                                            *)
(***************************************************************************)
\* the phases of the frame that came before the phase that raised
PhasesBefore(phase) ==
    IF phase = "handle_events" THEN <<>>
    ELSE IF phase = "update" THEN <<"handle_events">>
    ELSE <<"handle_events", "update">>

\* after an exception the frame has run the phases before the raising one only
RemainingSkipped == run.raised # "none" => run.phases = PhasesBefore(run.raised)

\* an exception goes to the except clause, which clears is_running; from then
\* on no phase runs, no frame starts and nothing changes in the world; quit
\* comes after the loop has ended and exit after quit
CaughtAndStopped ==
    /\ run'.raised # run.raised => (run.pc = run'.raised /\ run'.pc = "except")
    /\ run.pc = "except" => (run'.pc = "while" /\ ~run'.is_running)
    /\ run.raised # "none" =>
           /\ run'.frames = run.frames
           /\ run'.phases = run.phases
           /\ run'.pc \in {"while", "quit", "exit", "exited"}
           /\ UNCHANGED <<world_vars, cull_vars>>
    /\ (run'.quit /\ ~run.quit) => (run.pc = "quit" /\ ~run.is_running)
    /\ (run'.pc = "exited" /\ run.pc # "exited") => run.quit

\* the session has shut down: is_running is false, pg.quit() and sys.exit() ran
SessionEnded == run.pc = "exited" /\ run.quit /\ ~run.is_running

\* C20: if handle_events, update or render raises in a frame of
\* VoxelEngine.run, the exception is caught at the frame boundary, the remaining
\* phases of that frame are skipped, no further frame is started and the session
\* shuts down: is_running becomes false, then come quit and exit.
C20_ExceptionEndsSession ==
    /\ []RemainingSkipped
    /\ [][CaughtAndStopped]_vars
    /\ (run.raised # "none") ~> SessionEnded

\* C20: update raised in the second frame, after a voxel edit, and the session
\* has shut down
C20_Witness ==
    /\ SessionEnded
    /\ run.raised = "update"
    /\ run.frames = 2
    /\ run.phases = <<"handle_events">>
    /\ edits > 0

(***************************************************************************)
(* Properties of the is_empty flag.                                        *)
(***************************************************************************)
\* the chunks that hold at least one solid voxel
SolidChunks == {c \in ChunkIds : AnyVoxel(voxels[c])}

\* C21: in every state reachable from the construction of the world through
\* ray casts, remove_voxel and add_voxel calls, a chunk's is_empty flag is true
\* exactly when all voxels of the chunk are 0, so the chunks handed to the culler
\* are exactly the chunks that hold at least one solid voxel.
C21_IsEmptyCached ==
    /\ \A c \in ChunkIds : is_empty[c] <=> ~AnyVoxel(voxels[c])
    /\ Built(candidates(is_empty)) = SolidChunks

\* C21: remove_voxel has taken the last solid voxel out of a chunk
C21_Witness ==
    /\ last_op = "remove_voxel" /\ CurrentHit
    /\ ~AnyVoxel(voxels[handler.chunk])

\* C21, the part that holds: a chunk flagged empty holds no solid voxel
C21_EmptyFlagIsSound == \A c \in ChunkIds : is_empty[c] => ~AnyVoxel(voxels[c])

(***************************************************************************)
(* Properties of the advance step of ray_cast.                             *)
(***************************************************************************)
\* the smallest of the three max_t examined
ProbeMinT == Min(probe.arg[1], Min(probe.arg[2], probe.arg[3]))

\* the axis advanced has the smallest max_t
AdvancesSmallest == probe.arg[probe.out + 1] = ProbeMinT

\* C22 as stated: when two or more axes share the smallest max_t, the axis
\* advanced follows the priority x, then z, then y: x is advanced in any tie it
\* takes part in, and z in a tie between z and y.
C22_TiePriorityXZY ==
    probe.op = "advance_axis" =>
        /\ (probe.arg[1] = ProbeMinT
               /\ (probe.arg[2] = ProbeMinT \/ probe.arg[3] = ProbeMinT)) => probe.out = 0
        /\ (probe.arg[1] > ProbeMinT /\ probe.arg[2] = ProbeMinT
               /\ probe.arg[3] = ProbeMinT) => probe.out = 2

\* C22 as the code has it: the axis advanced has the smallest max_t, and among
\* equal smallest max_t the priority is z, then y, then x: z is advanced in any
\* tie it takes part in, and y in a tie between x and y.
C22_TiePriorityZYX ==
    probe.op = "advance_axis" =>
        /\ AdvancesSmallest
        /\ (probe.arg[3] = ProbeMinT
               /\ (probe.arg[1] = ProbeMinT \/ probe.arg[2] = ProbeMinT)) => probe.out = 2
        /\ (probe.arg[3] > ProbeMinT /\ probe.arg[1] = ProbeMinT
               /\ probe.arg[2] = ProbeMinT) => probe.out = 1

\* C22: a tie between x and y below z was decided for y
C22_Witness ==
    /\ probe.op = "advance_axis"
    /\ probe.arg[1] = probe.arg[2] /\ probe.arg[2] < probe.arg[3]
    /\ probe.out = 1

\* C22: a tie between x and z below y was decided for z
C22_TieXZ ==
    /\ probe.op = "advance_axis"
    /\ probe.arg[1] = probe.arg[3] /\ probe.arg[3] < probe.arg[2]
    /\ probe.out = 2

(***************************************************************************)
(* Properties of the counters.                                             *)
(***************************************************************************)
\* the counters account for every chunk passed in
CountersAddUp ==
    /\ stats.total_tested = stats.distance_culled + stats.frustum_culled
                               + stats.occlusion_culled + Len(visible)
    /\ stats.frustum_culled = Len(call.distance_passed) - Len(call.frustum_passed)

\* C23: after every cull_all_chunks call, on the sequential and on the threaded
\* frustum path alike, total_tested = distance_culled + frustum_culled +
\* occlusion_culled + the number of visible chunks returned, and frustum_culled is
\* the number of chunks that survived the distance pass and failed the frustum
\* test in this call.
C23_CountersAddUp == cull_pc = "return" => CountersAddUp

\* C23: a call returns whose frustum pass ran on the workers and rejected chunks
C23_Witness ==
    /\ cull_pc = "return"
    /\ call.threaded /\ Len(threads) > 1
    /\ Len(call.frustum_passed) < Len(call.distance_passed)

\* C23, the part that holds: the counters add up on the sequential path
C23_SequentialAddsUp == (cull_pc = "return" /\ ~call.threaded) => CountersAddUp

(***************************************************************************)
(* Properties of the face normal of a hit.                                 *)
(***************************************************************************)
\* a unit axis vector: exactly one component is +1 or -1, the others are 0
UnitAxis(v) ==
    /\ \A i \in 1 .. 3 : v[i] \in {-1, 0, 1}
    /\ Cardinality({i \in 1 .. 3 : v[i] # 0}) = 1

\* C24: every hit returned by ray_cast, also a hit in the starting cell before
\* any traversal step and for every direction, carries a face normal that is a
\* unit axis vector, so the cell add_voxel targets is a face neighbor of the hit
\* cell and never the hit cell itself.
C24_NormalIsUnitAxis ==
    (last_op = "update" /\ ray.hit) =>
        /\ UnitAxis(handler.voxel_normal)
        /\ AddTarget # handler.voxel_world_pos
        /\ Abs(AddTarget[1] - handler.voxel_world_pos[1])
               + Abs(AddTarget[2] - handler.voxel_world_pos[2])
               + Abs(AddTarget[3] - handler.voxel_world_pos[3]) = 1

\* C24: the eye is inside a solid voxel of the world and the cast hit its
\* starting cell
C24_Witness ==
    /\ last_op = "update" /\ ray.hit
    /\ Len(ray.trace) = 1
    /\ InWorld(floor3(player.position))
    /\ handler.voxel_world_pos = floor3(player.position)

\* C24, the part that holds: a hit after at least one traversal step carries a
\* unit axis normal
C24_SteppedHitUnitAxis ==
    (last_op = "update" /\ ray.hit /\ Len(ray.trace) >= 2) =>
        UnitAxis(handler.voxel_normal)

(***************************************************************************)
(* C25: where add_voxel writes, over every order of ray casts and edits.   *)
(***************************************************************************)
\* the six cells that share a face with a cell
FaceCells(cell) ==
    {[cell EXCEPT ![axis] = @ + s] : axis \in 1 .. 3, s \in {-1, 1}}

\* a cell shares a face with a solid cell of the world
NextToSolid(cell) == \E n \in FaceCells(cell) : InWorld(n) /\ CellId(n) # 0

\* an add_voxel step that wrote a voxel
AddWrites == last_op' = "add_voxel" /\ voxels' # voxels

\* C25: over every sequence of ray_cast, remove_voxel, switch_mode and
\* add_voxel, several edits between two ray casts included, add_voxel writes a
\* voxel only while the voxel of the hit it acts on is still solid, and only
\* into a cell that shares a face with a cell solid at the moment of the write.
C25_AddNextToSolid ==
    [][AddWrites =>
          /\ CellId(handler.voxel_world_pos) # 0
          /\ NextToSolid(AddTarget)]_vars

\* C25: add_voxel has written next to a hit voxel that was removed after the
\* ray cast that found it
C25_Witness ==
    /\ last_op = "add_voxel" /\ edits = 2
    /\ truthy(handler.voxel_id) /\ UnitAxis(handler.voxel_normal)
    /\ CellId(handler.voxel_world_pos) = 0
    /\ CellId(AddTarget) = handler.new_voxel_id

\* C25, the part that holds: an add_voxel that acts on a hit whose voxel is
\* still solid writes into a cell sharing a face with a solid cell
C25_FreshHitAdjacent ==
    [][(AddWrites /\ CellId(handler.voxel_world_pos) # 0) =>
          NextToSolid(AddTarget)]_vars

\* an add_voxel wrote a voxel that shares no face with any solid cell
C25_FloatingVoxel ==
    /\ last_op = "add_voxel" /\ edits = 2
    /\ truthy(handler.voxel_id) /\ UnitAxis(handler.voxel_normal)
    /\ CellId(AddTarget) = handler.new_voxel_id
    /\ ~NextToSolid(AddTarget)

(***************************************************************************)
(* C26: a cull_all_chunks call repeated with the inputs of the call before.*)
(***************************************************************************)
\* the call that returns was given what the call before it was given
SameInputs ==
    /\ cull_pc = "return"
    /\ probe.op = "cull_all_chunks"
    /\ probe.chunks = call.chunks
    /\ probe.camera = camera
    /\ probe.enable = enable
    /\ probe.occluders = occluders

\* C26: two consecutive cull_all_chunks calls with the same camera, chunk list,
\* toggles and occluders return the same visible set, whatever camera position
\* and forward the first call recorded.
C26_RepeatedCallSameVisible ==
    SameInputs => Built(visible) = Built(probe.visible)

\* C26: a second call returns that was given the inputs of the first, with the
\* temporal check and the occlusion pass enabled and an occluder registered
C26_Witness ==
    /\ SameInputs
    /\ enable.temporal /\ enable.occlusion /\ occluders # <<>>
    /\ ~call.moved
    /\ Len(visible) > 0

\* C26, the part that holds: with the temporal check or the occlusion pass
\* disabled the repeated call returns the visible list of the call before
C26_RepeatWithoutGate ==
    (SameInputs /\ ~(enable.temporal /\ enable.occlusion)) => visible = probe.visible

(***************************************************************************)
(* C27: the loop of ray_cast ends.                                         *)
(***************************************************************************)
\* the iterations a cast can make: per axis at most MAX_RAY_DIST + 1 raises of max_t
MaxIterations == 3 * (MAX_RAY_DIST + 1)

\* an iteration of the loop that did not return
Advanced == InCast /\ probe'.op = "ray_cast" /\ probe'.n = probe.n + 1

\* exactly one axis had its max_t raised, by its positive delta, and only that
\* axis moved the cell, by the sign of the direction
RaisesOneAxis ==
    \E a \in 1 .. 3 :
       /\ probe.delta[a] > 0
       /\ probe'.max = [probe.max EXCEPT ![a] = @ + probe.delta[a]]
       /\ probe'.cur = [probe.cur EXCEPT ![a] = @ + probe.d[a]]

\* the cell keeps its coordinate on every axis the direction has no component on
StillAxesKept ==
    InCast => \A i \in 1 .. 3 : probe.d[i] = 0 => probe.cur[i] = ivec3(player.position)[i]

\* C27: ray_cast terminates for every eye position, every direction (one, two or
\* three zero components included) and every world content: each iteration
\* either returns a hit or raises exactly one axis's max_t by a positive delta,
\* the loop ends with hit or miss after a bounded number of iterations, and an
\* axis whose direction component is 0 never changes the cell on that axis.
C27_RayCastTerminates ==
    /\ InCast ~> (probe.op = "returned")
    /\ [][Advanced => RaisesOneAxis]_vars
    /\ [](probe.op \in {"ray_cast", "returned"} => probe.n <= MaxIterations)
    /\ []StillAxesKept

\* C27: a cast without any direction, from an eye on a cell corner, returned a
\* miss after one iteration per axis
C27_Witness ==
    /\ probe.op = "returned" /\ ~probe.hit
    /\ probe.d = <<0, 0, 0>>
    /\ probe.n = 3

\* a cast along a single axis returned a miss after more than MAX_RAY_DIST iterations
C27_LongMiss ==
    /\ probe.op = "returned" /\ ~probe.hit
    /\ Cardinality({i \in 1 .. 3 : probe.d[i] = 0}) = 2
    /\ probe.n > MAX_RAY_DIST

====
